---- MODULE Spec2Model ----
(***************************************************************************)
(* A model of the Myosotis storage engine: the in-memory engine            *)
(* (src/src/memory.rs: Memory) and the store file it is saved to, loaded   *)
(* from and compacted in (src/src/storage.rs).                             *)
(*                                                                         *)
(* Representation.                                                         *)
(*   Option<T>            None == <<>>, Some(x) == <<x>>                   *)
(*   Value (node.rs)      a one-field record named after the variant, as   *)
(*                        serde writes it: [Int |-> 1], [Ref |-> 2],       *)
(*                        [List |-> <<v, ...>>], [Map |-> [key |-> v]]     *)
(*   Mutation (commit.rs) [CreateNode |-> [id, ty]], [SetField |-> ...]    *)
(*   HashMap<K, V>        a function with a finite domain                  *)
(*   [u8; 32]             SHA-256 is modelled as an injective function of  *)
(*                        the hashed byte string: Sha256(b) == [sha256 |-> *)
(*                        b], with b the sequence of encoded items         *)
(***************************************************************************)
EXTENDS Integers, Sequences, FiniteSets, TLC

(***************************************************************************)
(* Bounds of the model.                                                    *)
(***************************************************************************)
\* create is taken while next_node_id <= MaxNodeId
MaxNodeId == 2
\* commit is taken while the id it would assign is <= MaxCommitId
MaxCommitId == 3
\* a mutation is staged while fewer than MaxPending mutations are pending
MaxPending == 2
\* ... and while the log and the pending buffer together hold fewer than
\* MaxMutations mutations
MaxMutations == 3
\* under SpecStaging, a mutation is staged while fewer than MaxStaged
\* mutations are pending
MaxStaged == 4
MaxRefMutations == 4

(***************************************************************************)
(* Program constants.                                                      *)
(***************************************************************************)
\* memory.rs:8 sets CHECKPOINT_INTERVAL to 50.  The code reads it in one
\* place, commits.len().is_multiple_of(CHECKPOINT_INTERVAL); the model keeps
\* that test and scales the interval down to 2 so that checkpoints occur
\* within MaxCommitId commits.
CHECKPOINT_INTERVAL == 2
FILE_MAGIC == "MYOSOTIS"
FORMAT_VERSION == 1

None == <<>>
Some(x) == <<x>>
IsSome(o) == o /= None
Unwrap(o) == o[1]

(***************************************************************************)
(* The inputs the operations are driven with.                              *)
(***************************************************************************)
Types == {"Agent"}
\* field names, in ascending byte order (the order Vec<&String>::sort gives)
SortedKeys == <<"k", "l">>
FieldNames == {SortedKeys[i] : i \in 1..Len(SortedKeys)}
\* the one field name that Spec drives the engine with (SpecStaging drives it
\* with every field name)
Keys == {SortedKeys[1]}
NodeIds == 1..(MaxNodeId + 1)
\* an f64 is named by what it is: "NaN" is a NaN bit pattern (a finite float
\* would be named by its bits)
NonFinite == {"NaN", "inf", "-inf"}
Values == {[Int |-> 1], [Ref |-> 2], [Float |-> "NaN"]}
Messages == {Some("m")}

(***************************************************************************)
(* node.rs / commit.rs: constructors                                       *)
(***************************************************************************)
EmptyMap == <<>>

Node(id, ty, fields, deleted) ==
  [id |-> id, ty |-> ty, fields |-> fields, deleted |-> deleted]

CreateNode(id, ty) == [CreateNode |-> [id |-> id, ty |-> ty]]
SetField(id, key, value) == [SetField |-> [id |-> id, key |-> key, value |-> value]]
DeleteField(id, key) == [DeleteField |-> [id |-> id, key |-> key]]
DeleteNode(id) == [DeleteNode |-> [id |-> id]]

Is(x, variant) == variant \in DOMAIN x

\* HashMap::insert
Insert(map, k, v) == [x \in (DOMAIN map) \cup {k} |-> IF x = k THEN v ELSE map[x]]
\* HashMap::remove
Remove(map, k) == [x \in (DOMAIN map) \ {k} |-> map[x]]

(***************************************************************************)
(* memory.rs: canonical encoding and hashes.  A byte string is a sequence  *)
(* of items: [u8 |-> n] one byte, [u64 |-> n] and [i64 |-> n] eight bytes  *)
(* big-endian, [f64 |-> f] the eight bytes of a float's bit pattern,       *)
(* [utf8 |-> s] the bytes of a non-empty string, [h32 |-> h] the 32 bytes  *)
(* of a hash.                                                              *)
(***************************************************************************)
U8(n) == << [u8 |-> n] >>
U64(n) == << [u64 |-> n] >>
I64(n) == << [i64 |-> n] >>
\* v.to_bits().to_be_bytes()
F64Bits(f) == << [f64 |-> f] >>
\* extend_from_slice(s.as_bytes()): nothing is appended for the empty string
Utf8(s) == IF s = "" THEN <<>> ELSE << [utf8 |-> s] >>
\* len as u64, then the bytes
LenPrefixed(s) == U64(Len(s)) \o Utf8(s)
ZERO32 == [zero |-> 32]
H32(h) == << [h32 |-> h] >>

Sha256(bytes) == [sha256 |-> bytes]

\* keys.sort() over the key set of a map
SortKeys(S) == SelectSeq(SortedKeys, LAMBDA k : k \in S)

\* node_ids.sort_unstable()
RECURSIVE SortIds(_)
SortIds(S) ==
  IF S = {} THEN <<>>
  ELSE LET m == CHOOSE x \in S : \A y \in S : x <= y
       IN  <<m>> \o SortIds(S \ {m})

\* the byte strings of the sequence parts, appended in order
RECURSIVE Concat(_)
Concat(parts) ==
  IF parts = <<>> THEN <<>> ELSE Head(parts) \o Concat(Tail(parts))

RECURSIVE write_value_canonical(_)
write_value_canonical(value) ==
  IF Is(value, "Int") THEN U8(1) \o I64(value.Int)
  ELSE IF Is(value, "Float") THEN U8(2) \o F64Bits(value.Float)
  ELSE IF Is(value, "Bool") THEN U8(3) \o U8(IF value.Bool THEN 1 ELSE 0)
  ELSE IF Is(value, "Str") THEN U8(4) \o LenPrefixed(value.Str)
  ELSE IF Is(value, "Ref") THEN U8(5) \o U64(value.Ref)
  ELSE IF Is(value, "List") THEN
    U8(6) \o U64(Len(value.List))
          \o Concat([i \in 1..Len(value.List) |-> write_value_canonical(value.List[i])])
  ELSE \* Map
    LET keys == SortKeys(DOMAIN value.Map)
        Entry(key) == LenPrefixed(key) \o write_value_canonical(value.Map[key])
    IN  U8(7) \o U64(Len(keys)) \o Concat([i \in 1..Len(keys) |-> Entry(keys[i])])

write_mutation(m) ==
  IF Is(m, "CreateNode") THEN
    U8(1) \o U64(m.CreateNode.id) \o LenPrefixed(m.CreateNode.ty)
  ELSE IF Is(m, "SetField") THEN
    U8(2) \o U64(m.SetField.id) \o LenPrefixed(m.SetField.key)
          \o write_value_canonical(m.SetField.value)
  ELSE IF Is(m, "DeleteField") THEN
    U8(3) \o U64(m.DeleteField.id) \o LenPrefixed(m.DeleteField.key)
  ELSE U8(4) \o U64(m.DeleteNode.id)

compute_commit_hash(parent_hash, message, mutations) ==
  Sha256(
    (IF IsSome(parent_hash) THEN H32(Unwrap(parent_hash)) ELSE H32(ZERO32))
    \o (IF IsSome(message) THEN LenPrefixed(Unwrap(message)) ELSE U64(0))
    \o Concat([i \in 1..Len(mutations) |-> write_mutation(mutations[i])]))

compute_state_hash(state) ==
  LET NodeBytes(node_id) ==
        LET node == state[node_id]
            field_keys == SortKeys(DOMAIN node.fields)
            FieldBytes(field_key) ==
              LenPrefixed(field_key) \o write_value_canonical(node.fields[field_key])
        IN  U64(node_id) \o LenPrefixed(node.ty)
            \o U8(IF node.deleted THEN 1 ELSE 0)
            \o U64(Len(field_keys))
            \o Concat([i \in 1..Len(field_keys) |-> FieldBytes(field_keys[i])])
      node_ids == SortIds(DOMAIN state)
  IN  Sha256(Concat([i \in 1..Len(node_ids) |-> NodeBytes(node_ids[i])]))

(***************************************************************************)
(* Result<T, MyosotisError>: Ok(x) or Err(e), e the name of the error      *)
(* variant (error.rs); the detail strings of Invariant and InvalidInput    *)
(* are not modelled.                                                       *)
(***************************************************************************)
Ok(x) == [Ok |-> x]
Err(e) == [Err |-> e]
IsOk(r) == Is(r, "Ok")

(***************************************************************************)
(* memory.rs: Memory::apply_mutation, on the head state                    *)
(***************************************************************************)
apply_mutation(head, m) ==
  IF Is(m, "CreateNode") THEN
    LET id == m.CreateNode.id IN
    IF id \in DOMAIN head THEN Err("Invariant")
    ELSE Ok(Insert(head, id, Node(id, m.CreateNode.ty, EmptyMap, FALSE)))
  ELSE IF Is(m, "SetField") THEN
    LET id == m.SetField.id IN
    IF id \notin DOMAIN head THEN Err("NodeNotFound")
    ELSE IF head[id].deleted THEN Err("NodeDeleted")
    ELSE Ok([head EXCEPT ![id].fields = Insert(@, m.SetField.key, m.SetField.value)])
  ELSE IF Is(m, "DeleteField") THEN
    LET id == m.DeleteField.id IN
    IF id \notin DOMAIN head THEN Err("DeleteNonexistentNode")
    ELSE IF head[id].deleted THEN Err("DeleteOnDeletedNode")
    ELSE IF m.DeleteField.key \notin DOMAIN head[id].fields THEN Err("FieldNotFound")
    ELSE Ok([head EXCEPT ![id].fields = Remove(@, m.DeleteField.key)])
  ELSE \* DeleteNode
    LET id == m.DeleteNode.id IN
    IF id \notin DOMAIN head THEN Err("DeleteNonexistentNode")
    ELSE IF head[id].deleted THEN Err("DeleteOnDeletedNode")
    ELSE Ok([head EXCEPT ![id].deleted = TRUE])

(***************************************************************************)
(* memory.rs: check_value (the same function is declared in commit and in  *)
(* replay_from): TRUE when every Ref in v names a node of state            *)
(***************************************************************************)
\* check_value looking at the value itself only, not inside lists and maps
CheckValueFlat(v, state) == Is(v, "Ref") => v.Ref \in DOMAIN state

RECURSIVE check_value(_, _)
check_value(v, state) ==
  IF Is(v, "Ref") THEN v.Ref \in DOMAIN state
  ELSE IF Is(v, "List") THEN
    \A i \in 1..Len(v.List) : check_value(v.List[i], state)
  ELSE IF Is(v, "Map") THEN
    \A key \in DOMAIN v.Map : check_value(v.Map[key], state)
  ELSE TRUE

(***************************************************************************)
(* memory.rs: Memory::replay_from, the body of its inner loop              *)
(***************************************************************************)
replay_mutation(state, m) ==
  IF Is(m, "CreateNode") THEN
    LET id == m.CreateNode.id IN
    IF id \in DOMAIN state THEN Err("Invariant")
    ELSE Ok(Insert(state, id, Node(id, m.CreateNode.ty, EmptyMap, FALSE)))
  ELSE IF Is(m, "SetField") THEN
    LET id == m.SetField.id IN
    IF id \notin DOMAIN state THEN Err("Invariant")
    ELSE IF state[id].deleted THEN Err("NodeDeleted")
    ELSE IF ~check_value(m.SetField.value, state) THEN Err("Invariant")
    ELSE Ok([state EXCEPT ![id].fields = Insert(@, m.SetField.key, m.SetField.value)])
  ELSE IF Is(m, "DeleteField") THEN
    LET id == m.DeleteField.id IN
    IF id \notin DOMAIN state THEN Err("DeleteNonexistentNode")
    ELSE IF state[id].deleted THEN Err("DeleteOnDeletedNode")
    ELSE IF m.DeleteField.key \notin DOMAIN state[id].fields THEN Err("FieldNotFound")
    ELSE Ok([state EXCEPT ![id].fields = Remove(@, m.DeleteField.key)])
  ELSE \* DeleteNode
    LET id == m.DeleteNode.id IN
    IF id \notin DOMAIN state THEN Err("DeleteNonexistentNode")
    ELSE IF state[id].deleted THEN Err("DeleteOnDeletedNode")
    ELSE Ok([state EXCEPT ![id].deleted = TRUE])

\* for m in &commit.mutations { ... }: r is the state so far, or the error
RECURSIVE replay_mutations(_, _)
replay_mutations(r, mutations) ==
  IF ~IsOk(r) \/ mutations = <<>> THEN r
  ELSE replay_mutations(replay_mutation(r.Ok, Head(mutations)), Tail(mutations))

\* for commit in commits { ... }
RECURSIVE replay_commits(_, _)
replay_commits(r, commits) ==
  IF ~IsOk(r) \/ commits = <<>> THEN r
  ELSE replay_commits(replay_mutations(r, Head(commits).mutations), Tail(commits))

replay_from(state, commits) == replay_commits(Ok(state), commits)

\* Memory::replay: from the empty state
replay(commits) == replay_from(EmptyMap, commits)

(***************************************************************************)
(* memory.rs: Memory::commit, the body of the loop that checks the pending *)
(* mutations against base_state (a created node gets the empty type there) *)
(***************************************************************************)
\* commit_check_mutation without the check of the references of a value
CommitCheckMutationAnyRef(base_state, m) ==
  IF Is(m, "CreateNode") THEN
    LET id == m.CreateNode.id IN
    IF id \in DOMAIN base_state THEN Err("Invariant")
    ELSE Ok(Insert(base_state, id, Node(id, "", EmptyMap, FALSE)))
  ELSE IF Is(m, "SetField") THEN
    LET id == m.SetField.id IN
    IF id \notin DOMAIN base_state THEN Err("Invariant")
    ELSE IF base_state[id].deleted THEN Err("NodeDeleted")
    ELSE Ok([base_state EXCEPT
               ![id].fields = Insert(@, m.SetField.key, m.SetField.value)])
  ELSE IF Is(m, "DeleteField") THEN
    LET id == m.DeleteField.id IN
    IF id \notin DOMAIN base_state THEN Err("DeleteNonexistentNode")
    ELSE IF base_state[id].deleted THEN Err("DeleteOnDeletedNode")
    ELSE IF m.DeleteField.key \notin DOMAIN base_state[id].fields
      THEN Err("FieldNotFound")
    ELSE Ok([base_state EXCEPT ![id].fields = Remove(@, m.DeleteField.key)])
  ELSE \* DeleteNode
    LET id == m.DeleteNode.id IN
    IF id \notin DOMAIN base_state THEN Err("DeleteNonexistentNode")
    ELSE IF base_state[id].deleted THEN Err("DeleteOnDeletedNode")
    ELSE Ok([base_state EXCEPT ![id].deleted = TRUE])

commit_check_mutation(base_state, m) ==
  IF Is(m, "CreateNode") THEN
    LET id == m.CreateNode.id IN
    IF id \in DOMAIN base_state THEN Err("Invariant")
    ELSE Ok(Insert(base_state, id, Node(id, "", EmptyMap, FALSE)))
  ELSE IF Is(m, "SetField") THEN
    LET id == m.SetField.id IN
    IF id \notin DOMAIN base_state THEN Err("Invariant")
    ELSE IF base_state[id].deleted THEN Err("NodeDeleted")
    ELSE IF ~check_value(m.SetField.value, base_state) THEN Err("Invariant")
    ELSE Ok([base_state EXCEPT
               ![id].fields = Insert(@, m.SetField.key, m.SetField.value)])
  ELSE IF Is(m, "DeleteField") THEN
    LET id == m.DeleteField.id IN
    IF id \notin DOMAIN base_state THEN Err("DeleteNonexistentNode")
    ELSE IF base_state[id].deleted THEN Err("DeleteOnDeletedNode")
    ELSE IF m.DeleteField.key \notin DOMAIN base_state[id].fields
      THEN Err("FieldNotFound")
    ELSE Ok([base_state EXCEPT ![id].fields = Remove(@, m.DeleteField.key)])
  ELSE \* DeleteNode
    LET id == m.DeleteNode.id IN
    IF id \notin DOMAIN base_state THEN Err("DeleteNonexistentNode")
    ELSE IF base_state[id].deleted THEN Err("DeleteOnDeletedNode")
    ELSE Ok([base_state EXCEPT ![id].deleted = TRUE])

\* for m in &mutations { ... }: r is the base state so far, or the error
RECURSIVE commit_check(_, _)
commit_check(r, mutations) ==
  IF ~IsOk(r) \/ mutations = <<>> THEN r
  ELSE commit_check(commit_check_mutation(r.Ok, Head(mutations)), Tail(mutations))

(***************************************************************************)
(* memory.rs: Memory (a record of its fields), Commit and Checkpoint       *)
(***************************************************************************)
Memory_new ==
  [genesis_state |-> None, genesis_state_hash |-> None, commits |-> <<>>,
   checkpoints |-> <<>>, next_node_id |-> 1, head_state |-> EmptyMap,
   pending_mutations |-> <<>>]

Commit(id, parent, parent_hash, hash, message, mutations) ==
  [id |-> id, parent |-> parent, parent_hash |-> parent_hash, hash |-> hash,
   message |-> message, mutations |-> mutations]

Checkpoint(commit_id, commit_hash, state_hash, state) ==
  [commit_id |-> commit_id, commit_hash |-> commit_hash,
   state_hash |-> state_hash, state |-> state]

\* commits.iter().position(|c| c.id == id), counted from 1; 0 when there is none
Position(commits, id) ==
  LET found == {i \in 1..Len(commits) : commits[i].id = id}
  IN  IF found = {} THEN 0 ELSE CHOOSE i \in found : \A j \in found : i <= j

\* checkpoints.iter().max_by_key(|c| c.commit_id) over the indices in idx
\* (not empty): the last of the checkpoints with the largest commit_id
MaxByCommitId(checkpoints, idx) ==
  checkpoints[CHOOSE i \in idx : \A j \in idx :
                \/ checkpoints[j].commit_id < checkpoints[i].commit_id
                \/ checkpoints[j].commit_id = checkpoints[i].commit_id /\ j <= i]

\* genesis_state.clone().unwrap_or_default()
GenesisOrEmpty(self) ==
  IF IsSome(self.genesis_state) THEN Unwrap(self.genesis_state) ELSE EmptyMap

\* commits.len().is_multiple_of(CHECKPOINT_INTERVAL)
CheckpointDue(commits) == Len(commits) % CHECKPOINT_INTERVAL = 0

\* the base state of commit's validation: Self::replay(&self.commits)
CommitBase(self) == replay(self.commits)

(***************************************************************************)
(* memory.rs: Memory::commit; Ok(the engine after the commit) or Err       *)
(***************************************************************************)
\* self.commits.last()
Last(commits) == commits[Len(commits)]

\* memory.rs:271: self.commits.last().map(|c| c.id + 1).unwrap_or(1)
CommitId(self) == IF self.commits /= <<>> THEN Last(self.commits).id + 1 ELSE 1

\* memory.rs:272: self.commits.last().map(|c| c.id)
CommitParent(self) ==
  IF self.commits /= <<>> THEN Some(Last(self.commits).id) ELSE None

\* CommitParentHash with the predecessor's parent_hash for its hash
CommitParentHashOfLast(self) ==
  IF self.commits /= <<>> THEN Last(self.commits).parent_hash
  ELSE self.genesis_state_hash

\* CommitParentHash without the genesis anchor
CommitParentHashNoGenesis(self) ==
  IF self.commits /= <<>> THEN Some(Last(self.commits).hash) ELSE None

\* memory.rs:374-378
CommitParentHash(self) ==
  IF self.commits /= <<>> THEN Some(Last(self.commits).hash)
  ELSE self.genesis_state_hash

\* CommitHash over no parent hash
CommitHashNoParent(self, message) ==
  compute_commit_hash(None, message, self.pending_mutations)

\* memory.rs:379
CommitHash(self, message) ==
  compute_commit_hash(CommitParentHash(self), message, self.pending_mutations)

\* memory.rs:381-388: the commit record
NewCommit(self, message) ==
  Commit(CommitId(self), CommitParent(self), CommitParentHash(self),
         CommitHash(self, message), message, self.pending_mutations)

\* NewCheckpoint of the state the commit was checked against, the one before
\* the commit
NewCheckpointOfBase(self, last) ==
  Checkpoint(last.id, last.hash, compute_state_hash(CommitBase(self).Ok),
             CommitBase(self).Ok)

\* NewCheckpoint with the hash of the commit's parent
NewCheckpointOfParent(self, last) ==
  Checkpoint(last.id, Unwrap(last.parent_hash),
             compute_state_hash(self.head_state), self.head_state)

\* memory.rs:399-405: the checkpoint pushed for the commit last
NewCheckpoint(self, last) ==
  Checkpoint(last.id, last.hash, compute_state_hash(self.head_state), self.head_state)

\* CommitPush with the pending buffer left as it is
CommitPushPendingKept(self, pushed) ==
  [self EXCEPT
     !.commits = pushed,
     !.checkpoints = IF CheckpointDue(pushed)
                     THEN Append(@, NewCheckpoint(self, Last(pushed))) ELSE @]

\* memory.rs:390-409: push the commit, push a checkpoint when one is due,
\* clear the pending buffer
CommitPush(self, pushed) ==
  [self EXCEPT
     !.commits = pushed,
     !.checkpoints = IF CheckpointDue(pushed)
                     THEN Append(@, NewCheckpoint(self, Last(pushed))) ELSE @,
     !.pending_mutations = <<>>]

\* memory.rs:290-372: the pending mutations are checked against base_state
CommitChecked(self, message, checked) ==
  IF ~IsOk(checked) THEN checked
  ELSE Ok(CommitPush(self, Append(self.commits, NewCommit(self, message))))

\* memory.rs:289: Self::replay(&self.commits)?
CommitOnBase(self, message, base_state) ==
  IF ~IsOk(base_state) THEN base_state
  ELSE CommitChecked(self, message, commit_check(base_state, self.pending_mutations))

\* commit without the test for an empty pending buffer
CommitOfAnything(self, message) ==
  IF IsSome(CommitParent(self))
     /\ Unwrap(CommitParent(self)) + 1 /= CommitId(self) THEN Err("Invariant")
  ELSE IF ~IsSome(CommitParent(self)) /\ CommitId(self) /= 1 THEN Err("Invariant")
  ELSE CommitOnBase(self, message, CommitBase(self))

commit(self, message) ==
  IF self.pending_mutations = <<>> THEN Err("InvalidInput")
  ELSE IF IsSome(CommitParent(self))
          /\ Unwrap(CommitParent(self)) + 1 /= CommitId(self) THEN Err("Invariant")
  ELSE IF ~IsSome(CommitParent(self)) /\ CommitId(self) /= 1 THEN Err("Invariant")
  ELSE CommitOnBase(self, message, CommitBase(self))

\* state_at_commit replaying up to the target commit, the target left out
StateBeforeCommit(self, target_commit_id) ==
  LET target_index == Position(self.commits, target_commit_id)
      anchors == {i \in 1..Len(self.checkpoints) :
                    self.checkpoints[i].commit_id <= target_commit_id}
  IN
  IF target_index = 0 THEN Err("CommitNotFound")
  ELSE IF anchors = {} THEN
    replay_from(GenesisOrEmpty(self), SubSeq(self.commits, 1, target_index - 1))
  ELSE
    LET cp == MaxByCommitId(self.checkpoints, anchors)
        pos == Position(self.commits, cp.commit_id)
    IN  IF pos = 0 THEN Err("InvalidCheckpoint")
        ELSE IF pos > target_index THEN Err("InvalidCheckpoint")
        ELSE replay_from(cp.state, SubSeq(self.commits, pos + 1, target_index - 1))

\* state_at_commit anchored on the latest checkpoint, whatever the target
StateFromLatestCheckpoint(self, target_commit_id) ==
  LET target_index == Position(self.commits, target_commit_id)
      anchors == 1..Len(self.checkpoints)
  IN
  IF target_index = 0 THEN Err("CommitNotFound")
  ELSE IF anchors = {} THEN
    replay_from(GenesisOrEmpty(self), SubSeq(self.commits, 1, target_index))
  ELSE
    LET cp == MaxByCommitId(self.checkpoints, anchors)
        pos == Position(self.commits, cp.commit_id)
    IN  IF pos = 0 THEN Err("InvalidCheckpoint")
        ELSE IF pos > target_index THEN Err("InvalidCheckpoint")
        ELSE replay_from(cp.state, SubSeq(self.commits, pos + 1, target_index))

(***************************************************************************)
(* memory.rs: Memory::state_at_commit                                      *)
(***************************************************************************)
state_at_commit(self, target_commit_id) ==
  LET target_index == Position(self.commits, target_commit_id)
      anchors == {i \in 1..Len(self.checkpoints) :
                    self.checkpoints[i].commit_id <= target_commit_id}
  IN
  IF target_index = 0 THEN Err("CommitNotFound")
  ELSE IF anchors = {} THEN
    replay_from(GenesisOrEmpty(self), SubSeq(self.commits, 1, target_index))
  ELSE
    LET cp == MaxByCommitId(self.checkpoints, anchors)
        pos == Position(self.commits, cp.commit_id)
    IN  \* pos counts from 1, so the replay starts at the commit after pos
        IF pos = 0 THEN Err("InvalidCheckpoint")
        ELSE IF pos > target_index THEN Err("InvalidCheckpoint")
        ELSE replay_from(cp.state, SubSeq(self.commits, pos + 1, target_index))

(***************************************************************************)
(* The state replayed from the latest anchor: the last checkpoint with the *)
(* largest commit id, else the genesis snapshot, else the empty state      *)
(* (validate_with_mode and validate_and_build_head hold the same code)     *)
(***************************************************************************)
ReplayFromAnchor(self) ==
  IF self.checkpoints /= <<>> THEN
    LET cp == MaxByCommitId(self.checkpoints, 1..Len(self.checkpoints))
        pos == Position(self.commits, cp.commit_id)
    IN  IF pos = 0 THEN Err("InvalidCheckpoint")
        ELSE replay_from(cp.state, SubSeq(self.commits, pos + 1, Len(self.commits)))
  ELSE replay_from(GenesisOrEmpty(self), self.commits)

\* max of a set of ids, 0 for the empty set: keys().copied().max().unwrap_or(0)
MaxId(S) == IF S = {} THEN 0 ELSE CHOOSE x \in S : \A y \in S : y <= x

\* outcome[i] is "Ok" or the error of the loop's i-th round: the first error
\* returns; "Ok" when there is none
FirstError(outcome) ==
  LET bad == {i \in 1..Len(outcome) : outcome[i] /= "Ok"}
  IN  IF bad = {} THEN "Ok" ELSE outcome[CHOOSE i \in bad : \A j \in bad : i <= j]

(***************************************************************************)
(* memory.rs: Memory::validate_with_mode; "Ok" or the name of the error    *)
(***************************************************************************)
\* validate_genesis without the case of a hash that has no snapshot
ValidateGenesisSnapshotOnly(self) ==
  IF IsSome(self.genesis_state) THEN
    IF self.genesis_state_hash /= Some(compute_state_hash(Unwrap(self.genesis_state)))
    THEN "CorruptGenesisHash" ELSE "Ok"
  ELSE "Ok"

validate_genesis(self) ==
  IF IsSome(self.genesis_state) THEN
    IF self.genesis_state_hash /= Some(compute_state_hash(Unwrap(self.genesis_state)))
    THEN "CorruptGenesisHash" ELSE "Ok"
  ELSE IF IsSome(self.genesis_state_hash) THEN "CorruptGenesisHash"
  ELSE "Ok"

\* validate_commit with the parent-hash comparison made only when the
\* hashes are verified
ValidateCommitLinkVerified(self, i, verify_hashes) ==
  LET c == self.commits[i] IN
  IF i > 1 /\ c.id /= self.commits[i - 1].id + 1 THEN "Invariant"
  ELSE IF i = 1 /\ IsSome(c.parent) THEN "Invariant"
  ELSE IF i = 1 /\ c.parent_hash /= self.genesis_state_hash THEN "CorruptParentHash"
  ELSE IF i > 1 /\ c.parent /= Some(self.commits[i - 1].id) THEN "Invariant"
  ELSE IF verify_hashes /\ i > 1 /\ c.parent_hash /= Some(self.commits[i - 1].hash)
    THEN "CorruptParentHash"
  ELSE IF verify_hashes
          /\ c.hash /= compute_commit_hash(c.parent_hash, c.message, c.mutations)
    THEN "CorruptCommitHash"
  ELSE "Ok"

validate_commit(self, i, verify_hashes) ==
  LET c == self.commits[i] IN
  IF i > 1 /\ c.id /= self.commits[i - 1].id + 1 THEN "Invariant"
  ELSE IF i = 1 /\ IsSome(c.parent) THEN "Invariant"
  ELSE IF i = 1 /\ c.parent_hash /= self.genesis_state_hash THEN "CorruptParentHash"
  ELSE IF i > 1 /\ c.parent /= Some(self.commits[i - 1].id) THEN "Invariant"
  ELSE IF i > 1 /\ c.parent_hash /= Some(self.commits[i - 1].hash)
    THEN "CorruptParentHash"
  ELSE IF verify_hashes
          /\ c.hash /= compute_commit_hash(c.parent_hash, c.message, c.mutations)
    THEN "CorruptCommitHash"
  ELSE "Ok"

\* validate_checkpoint with the commit_hash comparison made only when the
\* hashes are verified
ValidateCheckpointHashVerified(self, i, verify_hashes) ==
  LET checkpoint == self.checkpoints[i]
      pos == Position(self.commits, checkpoint.commit_id)
  IN
  IF pos = 0 THEN "CheckpointCommitMismatch"
  ELSE IF verify_hashes /\ self.commits[pos].hash /= checkpoint.commit_hash
    THEN "CheckpointCommitMismatch"
  ELSE IF verify_hashes /\ compute_state_hash(checkpoint.state) /= checkpoint.state_hash
    THEN "CorruptCheckpointHash"
  ELSE "Ok"

validate_checkpoint(self, i, verify_hashes) ==
  LET checkpoint == self.checkpoints[i]
      pos == Position(self.commits, checkpoint.commit_id)
  IN
  IF pos = 0 THEN "CheckpointCommitMismatch"
  ELSE IF self.commits[pos].hash /= checkpoint.commit_hash
    THEN "CheckpointCommitMismatch"
  ELSE IF verify_hashes /\ compute_state_hash(checkpoint.state) /= checkpoint.state_hash
    THEN "CorruptCheckpointHash"
  ELSE "Ok"

\* node.rs:6, #[derive(PartialEq)] on Value: the same variant with equal
\* contents, where a NaN is equal to no float, itself included
RECURSIVE value_eq(_, _)
value_eq(a, b) ==
  IF DOMAIN a /= DOMAIN b THEN FALSE
  ELSE IF Is(a, "Float") THEN a.Float = b.Float /\ a.Float /= "NaN"
  ELSE IF Is(a, "List") THEN
    /\ Len(a.List) = Len(b.List)
    /\ \A i \in 1..Len(a.List) : value_eq(a.List[i], b.List[i])
  ELSE IF Is(a, "Map") THEN
    /\ DOMAIN a.Map = DOMAIN b.Map
    /\ \A key \in DOMAIN a.Map : value_eq(a.Map[key], b.Map[key])
  ELSE a = b

\* node.rs:17, #[derive(PartialEq)] on Node
node_eq(a, b) ==
  /\ a.id = b.id
  /\ a.ty = b.ty
  /\ a.deleted = b.deleted
  /\ DOMAIN a.fields = DOMAIN b.fields
  /\ \A key \in DOMAIN a.fields : value_eq(a.fields[key], b.fields[key])

\* HashMap<NodeId, Node> == HashMap<NodeId, Node>
state_eq(a, b) ==
  /\ DOMAIN a = DOMAIN b
  /\ \A id \in DOMAIN a : node_eq(a[id], b[id])

validate_with_mode(self, verify_hashes) ==
  LET genesis == validate_genesis(self)
      chain == FirstError([i \in 1..Len(self.commits) |->
                             validate_commit(self, i, verify_hashes)])
      snapshots == FirstError([i \in 1..Len(self.checkpoints) |->
                                 validate_checkpoint(self, i, verify_hashes)])
      state == ReplayFromAnchor(self)
  IN
  IF genesis /= "Ok" THEN genesis
  ELSE IF chain /= "Ok" THEN chain
  ELSE IF snapshots /= "Ok" THEN snapshots
  ELSE IF ~IsOk(state) THEN state.Err
  ELSE IF self.next_node_id <= MaxId(DOMAIN state.Ok) THEN "Invariant"
  ELSE IF DOMAIN self.head_state /= {} /\ ~state_eq(self.head_state, state.Ok)
    THEN "Invariant"
  ELSE "Ok"

\* Memory::validate
validate(self) == validate_with_mode(self, TRUE)

(***************************************************************************)
(* memory.rs: Memory::create, set, delete_field, delete_node; each gives   *)
(* Ok(the engine after the call) or Err                                    *)
(***************************************************************************)
\* create without self.next_node_id += 1
CreateSameId(self, ty) ==
  LET id == self.next_node_id IN
  Ok([self EXCEPT
        !.head_state = Insert(@, id, Node(id, ty, EmptyMap, FALSE)),
        !.pending_mutations = Append(@, CreateNode(id, ty))])

create(self, ty) ==
  LET id == self.next_node_id IN
  Ok([self EXCEPT
        !.next_node_id = id + 1,
        !.head_state = Insert(@, id, Node(id, ty, EmptyMap, FALSE)),
        !.pending_mutations = Append(@, CreateNode(id, ty))])

\* Stage without the effect of apply_mutation on the head
StageUnapplied(self, m) ==
  LET applied == apply_mutation(self.head_state, m) IN
  IF ~IsOk(applied) THEN applied
  ELSE Ok([self EXCEPT !.pending_mutations = Append(@, m)])

\* self.apply_mutation(&m)?; self.pending_mutations.push(m)
Stage(self, m) ==
  LET applied == apply_mutation(self.head_state, m) IN
  IF ~IsOk(applied) THEN applied
  ELSE Ok([self EXCEPT !.head_state = applied.Ok,
                       !.pending_mutations = Append(@, m)])

\* set with the node's fields replaced by the one field set
SetAlone(self, id, key, value) ==
  IF id \notin DOMAIN self.head_state THEN Err("NodeNotFound")
  ELSE IF self.head_state[id].deleted THEN Err("NodeDeleted")
  ELSE Ok([self EXCEPT
             !.head_state[id].fields = Insert(EmptyMap, key, value),
             !.pending_mutations = Append(@, SetField(id, key, value))])

\* set with the references of the value checked against the head
SetChecked(self, id, key, value) ==
  IF id \notin DOMAIN self.head_state THEN Err("NodeNotFound")
  ELSE IF self.head_state[id].deleted THEN Err("NodeDeleted")
  ELSE IF ~check_value(value, self.head_state) THEN Err("Invariant")
  ELSE Stage(self, SetField(id, key, value))

set(self, id, key, value) ==
  IF id \notin DOMAIN self.head_state THEN Err("NodeNotFound")
  ELSE IF self.head_state[id].deleted THEN Err("NodeDeleted")
  ELSE Stage(self, SetField(id, key, value))

\* delete_field removing every field of the node
DeleteFieldAll(self, id, key) ==
  IF id \notin DOMAIN self.head_state THEN Err("DeleteNonexistentNode")
  ELSE IF self.head_state[id].deleted THEN Err("DeleteOnDeletedNode")
  ELSE IF key \notin DOMAIN self.head_state[id].fields THEN Err("FieldNotFound")
  ELSE Ok([self EXCEPT
             !.head_state[id].fields = EmptyMap,
             !.pending_mutations = Append(@, DeleteField(id, key))])

delete_field(self, id, key) ==
  IF id \notin DOMAIN self.head_state THEN Err("DeleteNonexistentNode")
  ELSE IF self.head_state[id].deleted THEN Err("DeleteOnDeletedNode")
  ELSE IF key \notin DOMAIN self.head_state[id].fields THEN Err("FieldNotFound")
  ELSE Stage(self, DeleteField(id, key))

\* delete_node taking the node out of the head
DeleteNodeRemoved(self, id) ==
  IF id \notin DOMAIN self.head_state THEN Err("DeleteNonexistentNode")
  ELSE IF self.head_state[id].deleted THEN Err("DeleteOnDeletedNode")
  ELSE Ok([self EXCEPT
             !.head_state = Remove(@, id),
             !.pending_mutations = Append(@, DeleteNode(id))])

delete_node(self, id) ==
  IF id \notin DOMAIN self.head_state THEN Err("DeleteNonexistentNode")
  ELSE IF self.head_state[id].deleted THEN Err("DeleteOnDeletedNode")
  ELSE Stage(self, DeleteNode(id))

(***************************************************************************)
(* storage.rs.  A file is None (no file at the path) or Some(root), root   *)
(* the JSON object it holds, a record of its keys.  Numbers are kept as    *)
(* the code reads them: format_version is a u64, [hi |-> h, lo |-> l] for  *)
(* h * 2^32 + l, which `as u32` cuts to l.  A JSON value that is not an    *)
(* unsigned integer is a record of another shape, named after what it is:  *)
(* [String |-> "1"], [I64 |-> -1].                                         *)
(***************************************************************************)
U64Of(n) == [hi |-> 0, lo |-> n]
\* serde_json::Value::as_u64
as_u64(v) == IF DOMAIN v = {"hi", "lo"} THEN Some(v) ELSE None
AsU32(v) == v.lo
FitsU32(v) == v.hi = 0

LoadModes == {"Strict", "Unsafe"}

StoreKeys == {"genesis_state", "genesis_state_hash", "commits", "checkpoints",
              "next_node_id"}
\* Option fields may be left out; the others are required
RequiredStoreKeys == {"commits", "checkpoints", "next_node_id"}

to_memory(sf) ==
  [Memory_new EXCEPT
     !.genesis_state = sf.genesis_state,
     !.genesis_state_hash = sf.genesis_state_hash,
     !.commits = sf.commits,
     !.checkpoints = sf.checkpoints,
     !.next_node_id = sf.next_node_id]

\* from_memory with next_node_id left at its initial value
FromMemoryNextIdReset(memory) ==
  [magic |-> FILE_MAGIC,
   format_version |-> U64Of(FORMAT_VERSION),
   genesis_state |-> memory.genesis_state,
   genesis_state_hash |-> memory.genesis_state_hash,
   commits |-> memory.commits,
   checkpoints |-> memory.checkpoints,
   next_node_id |-> Memory_new.next_node_id]

from_memory(memory) ==
  [magic |-> FILE_MAGIC,
   format_version |-> U64Of(FORMAT_VERSION),
   genesis_state |-> memory.genesis_state,
   genesis_state_hash |-> memory.genesis_state_hash,
   commits |-> memory.commits,
   checkpoints |-> memory.checkpoints,
   next_node_id |-> memory.next_node_id]

\* storage.rs:64-83, with valid the outcome of validate_with_mode and state
\* the state replayed from the latest anchor
BuildHead(mem, valid, state) ==
  IF valid /= "Ok" THEN Err(valid)
  ELSE IF ~IsOk(state) THEN state
  ELSE Ok([mem EXCEPT !.head_state = state.Ok, !.pending_mutations = <<>>])

validate_and_build_head(mem, mode) ==
  BuildHead(mem, validate_with_mode(mem, mode = "Strict"), ReplayFromAnchor(mem))

(***************************************************************************)
(* serde_json, as save and load use it.  A value is written under its      *)
(* variant's name; a float that is not finite is written as null, and null *)
(* does not read back as an f64.  Everything else is taken to read back as *)
(* it was written (finite floats included), so it keeps its form here.     *)
(***************************************************************************)
RECURSIVE to_json_value(_)
to_json_value(value) ==
  IF Is(value, "Float") THEN
    [Float |-> IF value.Float \in NonFinite THEN "null" ELSE value.Float]
  ELSE IF Is(value, "List") THEN
    [List |-> [i \in 1..Len(value.List) |-> to_json_value(value.List[i])]]
  ELSE IF Is(value, "Map") THEN
    [Map |-> [key \in DOMAIN value.Map |-> to_json_value(value.Map[key])]]
  ELSE value

\* TRUE when the JSON value v deserializes as a Value
RECURSIVE value_parses(_)
value_parses(v) ==
  IF Is(v, "Float") THEN v.Float /= "null"
  ELSE IF Is(v, "List") THEN \A i \in 1..Len(v.List) : value_parses(v.List[i])
  ELSE IF Is(v, "Map") THEN \A key \in DOMAIN v.Map : value_parses(v.Map[key])
  ELSE TRUE

\* a state (HashMap<NodeId, Node>) as it is written
state_to_json(state) ==
  [id \in DOMAIN state |->
     [state[id] EXCEPT !.fields = [key \in DOMAIN @ |-> to_json_value(@[key])]]]

\* a commit as it is written
commit_to_json(c) ==
  [c EXCEPT !.mutations =
     [j \in 1..Len(@) |->
        IF Is(@[j], "SetField")
        THEN [SetField |-> [@[j].SetField EXCEPT !.value = to_json_value(@)]]
        ELSE @[j]]]

\* serde_json::to_string_pretty(&sf): the root object of the file
to_json(sf) ==
  [sf EXCEPT
     !.genesis_state =
        IF IsSome(@) THEN Some(state_to_json(Unwrap(@))) ELSE None,
     !.commits = [i \in 1..Len(@) |-> commit_to_json(@[i])],
     !.checkpoints =
        [i \in 1..Len(@) |-> [@[i] EXCEPT !.state = state_to_json(@)]]]

\* the values held by a state, by a list of mutations, by a list of commits
StateValues(state) ==
  {state[id].fields[key] : <<id, key>> \in
     {p \in (DOMAIN state) \X FieldNames : p[2] \in DOMAIN state[p[1]].fields}}

MutationValues(ms) ==
  {ms[j].SetField.value : j \in {j \in 1..Len(ms) : Is(ms[j], "SetField")}}

CommitValues(cs) == UNION {MutationValues(cs[i].mutations) : i \in 1..Len(cs)}

\* TRUE when every value of the root object obj deserializes
values_parse(obj) ==
  /\ \A v \in CommitValues(obj.commits) : value_parses(v)
  /\ \A i \in 1..Len(obj.checkpoints) :
        \A v \in StateValues(obj.checkpoints[i].state) : value_parses(v)
  /\ "genesis_state" \in DOMAIN obj /\ IsSome(obj.genesis_state) =>
        \A v \in StateValues(Unwrap(obj.genesis_state)) : value_parses(v)

\* the file written by save(path, memory)
save(memory) == Some(to_json(from_memory(memory)))

\* ParseV1 without deny_unknown_fields
ParseV1AnyFields(obj) ==
  IF /\ RequiredStoreKeys \cup {"magic", "format_version"} \subseteq DOMAIN obj
     /\ as_u64(obj.format_version) /= None
     /\ FitsU32(obj.format_version)
     /\ values_parse(obj)
  THEN Ok([genesis_state |->
             IF "genesis_state" \in DOMAIN obj THEN obj.genesis_state ELSE None,
           genesis_state_hash |->
             IF "genesis_state_hash" \in DOMAIN obj THEN obj.genesis_state_hash
             ELSE None,
           commits |-> obj.commits, checkpoints |-> obj.checkpoints,
           next_node_id |-> obj.next_node_id])
  ELSE Err("MalformedFileStructure")

\* serde_json::from_value::<StorageFormatV1>(root), deny_unknown_fields
ParseV1(obj) ==
  IF /\ DOMAIN obj \subseteq StoreKeys \cup {"magic", "format_version"}
     /\ RequiredStoreKeys \cup {"magic", "format_version"} \subseteq DOMAIN obj
     /\ as_u64(obj.format_version) /= None
     /\ FitsU32(obj.format_version)
     /\ values_parse(obj)
  THEN Ok([genesis_state |->
             IF "genesis_state" \in DOMAIN obj THEN obj.genesis_state ELSE None,
           genesis_state_hash |->
             IF "genesis_state_hash" \in DOMAIN obj THEN obj.genesis_state_hash
             ELSE None,
           commits |-> obj.commits, checkpoints |-> obj.checkpoints,
           next_node_id |-> obj.next_node_id])
  ELSE Err("MalformedFileStructure")

\* ParseLegacy with the genesis snapshot left out
ParseLegacyNoGenesis(obj) ==
  IF /\ DOMAIN obj \subseteq StoreKeys
     /\ RequiredStoreKeys \subseteq DOMAIN obj
     /\ values_parse(obj)
  THEN Ok([genesis_state |-> None,
           genesis_state_hash |->
             IF "genesis_state_hash" \in DOMAIN obj THEN obj.genesis_state_hash
             ELSE None,
           commits |-> obj.commits, checkpoints |-> obj.checkpoints,
           next_node_id |-> obj.next_node_id])
  ELSE Err("MalformedFileStructure")

\* serde_json::from_str::<LegacyStorageFormatV05>(data), deny_unknown_fields
ParseLegacy(obj) ==
  IF /\ DOMAIN obj \subseteq StoreKeys
     /\ RequiredStoreKeys \subseteq DOMAIN obj
     /\ values_parse(obj)
  THEN Ok([genesis_state |->
             IF "genesis_state" \in DOMAIN obj THEN obj.genesis_state ELSE None,
           genesis_state_hash |->
             IF "genesis_state_hash" \in DOMAIN obj THEN obj.genesis_state_hash
             ELSE None,
           commits |-> obj.commits, checkpoints |-> obj.checkpoints,
           next_node_id |-> obj.next_node_id])
  ELSE Err("MalformedFileStructure")

\* the end of both paths of load_with_mode: the parse error, or
\* validate_and_build_head(to_memory(sf), mode)
Parsed(sf, mode) ==
  IF ~IsOk(sf) THEN sf ELSE validate_and_build_head(to_memory(sf.Ok), mode)

load_with_mode(f, mode) ==
  IF f = None THEN Err("Io")
  ELSE
    LET obj == Unwrap(f)
        has_magic == "magic" \in DOMAIN obj
        has_version == "format_version" \in DOMAIN obj
    IN
    IF has_magic /\ ~has_version THEN Err("MissingFormatVersion")
    ELSE IF has_version THEN
      IF as_u64(obj.format_version) = None THEN Err("MissingFormatVersion")
      ELSE
      LET version == AsU32(Unwrap(as_u64(obj.format_version))) IN
      IF version = 0 THEN Err("MissingFormatVersion")
      ELSE IF version > FORMAT_VERSION THEN Err("UnsupportedFormatVersion")
      ELSE IF ~has_magic THEN Err("InvalidFileMagic")
      ELSE IF obj.magic /= FILE_MAGIC THEN Err("InvalidFileMagic")
      ELSE Parsed(ParseV1(obj), mode)
    ELSE IF has_magic THEN Err("InvalidFileMagic")
    ELSE Parsed(ParseLegacy(obj), mode)

load(f) == load_with_mode(f, "Strict")

(***************************************************************************)
(* storage.rs: compact (maintenance.rs holds the same function)            *)
(***************************************************************************)
\* the target commit id: Ok(id) or Err
\* CompactionTarget with the last commit taken when no id is supplied
CompactionTargetLast(mem, at) ==
  IF IsSome(at) THEN
    IF \E i \in 1..Len(mem.commits) : mem.commits[i].id = Unwrap(at)
    THEN Ok(Unwrap(at)) ELSE Err("InvalidCompactionTarget")
  ELSE IF mem.commits /= <<>> THEN Ok(mem.commits[Len(mem.commits)].id)
  ELSE Err("InvalidCompactionTarget")

CompactionTarget(mem, at) ==
  IF IsSome(at) THEN
    IF \E i \in 1..Len(mem.commits) : mem.commits[i].id = Unwrap(at)
    THEN Ok(Unwrap(at)) ELSE Err("InvalidCompactionTarget")
  ELSE IF mem.checkpoints /= <<>> THEN
    Ok(MaxByCommitId(mem.checkpoints, 1..Len(mem.checkpoints)).commit_id)
  ELSE IF mem.commits /= <<>> THEN Ok(mem.commits[Len(mem.commits)].id)
  ELSE Err("InvalidCompactionTarget")

\* RetainCommits keeping the target commit too
RetainCommitsFromTarget(commits, target_commit_id) ==
  SelectSeq(commits, LAMBDA c : c.id >= target_commit_id)

\* mem.commits.retain(|c| c.id > target_commit_id)
RetainCommits(commits, target_commit_id) ==
  SelectSeq(commits, LAMBDA c : c.id > target_commit_id)

\* mem.checkpoints.retain(|cp| cp.commit_id > target_commit_id)
RetainCheckpoints(checkpoints, target_commit_id) ==
  SelectSeq(checkpoints, LAMBDA cp : cp.commit_id > target_commit_id)

\* Relink with the message of each retained commit dropped
RECURSIVE RelinkWithoutMessage(_, _, _)
RelinkWithoutMessage(commits, prev_id, prev_hash) ==
  IF commits = <<>> THEN <<>>
  ELSE LET c == Head(commits)
           hash == compute_commit_hash(prev_hash, None, c.mutations)
       IN  << [c EXCEPT !.parent = prev_id, !.parent_hash = prev_hash,
                        !.message = None, !.hash = hash] >>
           \o RelinkWithoutMessage(Tail(commits), Some(c.id), Some(hash))

\* the loop that links each retained commit to its predecessor and rehashes it
RECURSIVE Relink(_, _, _)
Relink(commits, prev_id, prev_hash) ==
  IF commits = <<>> THEN <<>>
  ELSE LET c == Head(commits)
           hash == compute_commit_hash(prev_hash, c.message, c.mutations)
       IN  << [c EXCEPT !.parent = prev_id, !.parent_hash = prev_hash,
                        !.hash = hash] >>
           \o Relink(Tail(commits), Some(c.id), Some(hash))

\* the loop that sets each retained checkpoint's commit_hash: the checkpoints,
\* or Err when a checkpoint's commit is not among the commits
RelinkCheckpoints(checkpoints, commits) ==
  IF \E i \in 1..Len(checkpoints) : Position(commits, checkpoints[i].commit_id) = 0
  THEN Err("CheckpointCommitMismatch")
  ELSE Ok([i \in 1..Len(checkpoints) |->
             [checkpoints[i] EXCEPT
                !.commit_hash = commits[Position(commits, checkpoints[i].commit_id)].hash]])

\* compact gives [res |-> "Ok" or the error, file |-> the file at path after
\* the call].  It is written as its successive steps, each an operator that
\* takes what the steps before it computed.

\* storage.rs:215-227: write <path>.tmp, reload it, compare the head state
\* hashes, rename it over <path>
CompactReloaded(f, before_state_hash, tmp, reloaded) ==
  IF ~IsOk(reloaded) THEN [res |-> reloaded.Err, file |-> f]
  ELSE IF compute_state_hash(reloaded.Ok.head_state) /= before_state_hash
    THEN [res |-> "CompactionIntegrityMismatch", file |-> f]
  ELSE [res |-> "Ok", file |-> tmp]

CompactPublish(f, before_state_hash, tmp) ==
  CompactReloaded(f, before_state_hash, tmp, load(tmp))

\* storage.rs:190-213: install the genesis snapshot, retain and relink
CompactRelinked(f, mem, genesis_state, genesis_state_hash, relinked, kept) ==
  IF ~IsOk(kept) THEN [res |-> kept.Err, file |-> f]
  ELSE CompactPublish(f, compute_state_hash(mem.head_state),
         save([mem EXCEPT !.genesis_state = Some(genesis_state),
                          !.genesis_state_hash = Some(genesis_state_hash),
                          !.commits = relinked,
                          !.checkpoints = kept.Ok]))

\* the commits and the checkpoints compact keeps for target_commit_id
CompactCommits(mem, target_commit_id, genesis_state_hash) ==
  Relink(RetainCommits(mem.commits, target_commit_id), None, Some(genesis_state_hash))

CompactCheckpoints(mem, target_commit_id, relinked) ==
  RelinkCheckpoints(RetainCheckpoints(mem.checkpoints, target_commit_id), relinked)

CompactRewrite(f, mem, target_commit_id, genesis_state, genesis_state_hash) ==
  CompactRelinked(f, mem, genesis_state, genesis_state_hash,
    CompactCommits(mem, target_commit_id, genesis_state_hash),
    CompactCheckpoints(mem, target_commit_id,
      CompactCommits(mem, target_commit_id, genesis_state_hash)))

\* storage.rs:185-188: the new genesis is state_at_commit(target)
CompactAt(f, mem, target_commit_id, genesis_state) ==
  IF ~IsOk(genesis_state) THEN [res |-> genesis_state.Err, file |-> f]
  ELSE CompactRewrite(f, mem, target_commit_id, genesis_state.Ok,
                      compute_state_hash(genesis_state.Ok))

\* storage.rs:171-183: the target
CompactTargeted(f, mem, target) ==
  IF ~IsOk(target) THEN [res |-> target.Err, file |-> f]
  ELSE CompactAt(f, mem, target.Ok, state_at_commit(mem, target.Ok))

\* storage.rs:168: let mut mem = load(path)?
CompactLoaded(f, at, loaded) ==
  IF ~IsOk(loaded) THEN [res |-> loaded.Err, file |-> f]
  ELSE CompactTargeted(f, loaded.Ok, CompactionTarget(loaded.Ok, at))

compact(f, at) == CompactLoaded(f, at, load(f))

(***************************************************************************)
(* The state machine: one engine (the fields of Memory), the store file,   *)
(* the outcome of the last call and, while a compact runs step by step,    *)
(* its temp file and its position.                                         *)
(***************************************************************************)
VARIABLES
  genesis_state,       \* Memory.genesis_state: Option<HashMap<NodeId, Node>>
  genesis_state_hash,  \* Memory.genesis_state_hash: Option<[u8; 32]>
  commits,             \* Memory.commits: Vec<Commit>
  checkpoints,         \* Memory.checkpoints: Vec<Checkpoint>
  next_node_id,        \* Memory.next_node_id
  head_state,          \* Memory.head_state
  pending_mutations,   \* Memory.pending_mutations
  file,                \* the file at the store's path: None or Some(root)
  result,              \* what the last call returned: "Ok" or the error
  tmp,                 \* the file at <path>.tmp: None or Some(root)
  pc                   \* compact's position and its local variables

memvars == <<genesis_state, genesis_state_hash, commits, checkpoints,
             next_node_id, head_state, pending_mutations>>
vars == <<genesis_state, genesis_state_hash, commits, checkpoints,
          next_node_id, head_state, pending_mutations, file, result, tmp, pc>>

\* no compact is running
Idle == [step |-> "idle"]

\* the engine as a Memory value
Self ==
  [genesis_state |-> genesis_state, genesis_state_hash |-> genesis_state_hash,
   commits |-> commits, checkpoints |-> checkpoints, next_node_id |-> next_node_id,
   head_state |-> head_state, pending_mutations |-> pending_mutations]

\* the engine becomes mem
Becomes(mem) ==
  /\ genesis_state' = mem.genesis_state
  /\ genesis_state_hash' = mem.genesis_state_hash
  /\ commits' = mem.commits
  /\ checkpoints' = mem.checkpoints
  /\ next_node_id' = mem.next_node_id
  /\ head_state' = mem.head_state
  /\ pending_mutations' = mem.pending_mutations

\* a call on the engine returned r: Ok(the engine after it) or Err, which
\* leaves the engine as it was
Returns(r) ==
  IF IsOk(r) THEN Becomes(r.Ok) /\ result' = "Ok"
  ELSE UNCHANGED memvars /\ result' = r.Err

\* Memory::new(), and no file yet
Init ==
  /\ genesis_state = Memory_new.genesis_state
  /\ genesis_state_hash = Memory_new.genesis_state_hash
  /\ commits = Memory_new.commits
  /\ checkpoints = Memory_new.checkpoints
  /\ next_node_id = Memory_new.next_node_id
  /\ head_state = Memory_new.head_state
  /\ pending_mutations = Memory_new.pending_mutations
  /\ file = None
  /\ result = "Ok"
  /\ tmp = None
  /\ pc = Idle

\* the number of mutations in the commits cs
RECURSIVE Logged(_)
Logged(cs) == IF cs = <<>> THEN 0 ELSE Len(Head(cs).mutations) + Logged(Tail(cs))

\* the bounds on staging one more mutation
CanStage ==
  /\ Len(pending_mutations) < MaxPending
  /\ Len(pending_mutations) + Logged(commits) < MaxMutations

\* Create with the id of the node drawn from the ids that are free, whatever
\* next_node_id says
CreateAnyId(ty) ==
  /\ next_node_id <= MaxNodeId
  /\ CanStage
  /\ \E id \in NodeIds \ DOMAIN head_state :
        Returns(create([Self EXCEPT !.next_node_id = id], ty))
  /\ UNCHANGED <<file, tmp, pc>>

Create(ty) ==
  /\ next_node_id <= MaxNodeId
  /\ CanStage
  /\ Returns(create(Self, ty))
  /\ UNCHANGED <<file, tmp, pc>>

\* Stages with a failed call emptying the pending buffer
StagesOrDrops(r) ==
  /\ IsOk(r) => CanStage
  /\ IF IsOk(r) THEN Returns(r)
     ELSE /\ pending_mutations' = <<>>
          /\ result' = r.Err
          /\ UNCHANGED <<genesis_state, genesis_state_hash, commits, checkpoints,
                         next_node_id, head_state>>
  /\ UNCHANGED <<file, tmp, pc>>

\* a call that stages a mutation; the bound applies to the calls that succeed
Stages(r) ==
  /\ IsOk(r) => CanStage
  /\ Returns(r)
  /\ UNCHANGED <<file, tmp, pc>>

Set(id, key, value) == Stages(set(Self, id, key, value))

DeleteFieldOp(id, key) == Stages(delete_field(Self, id, key))

DeleteNodeOp(id) == Stages(delete_node(Self, id))

\* Commits with the pending buffer cleared by a failed commit too
CommitsOrClears(r) ==
  /\ IsOk(r) => r.Ok.commits[Len(r.Ok.commits)].id <= MaxCommitId
  /\ IF IsOk(r) THEN Returns(r)
     ELSE /\ pending_mutations' = <<>>
          /\ result' = r.Err
          /\ UNCHANGED <<genesis_state, genesis_state_hash, commits, checkpoints,
                         next_node_id, head_state>>
  /\ UNCHANGED <<file, tmp, pc>>

\* a commit; the bound applies to the calls that succeed
Commits(r) ==
  /\ IsOk(r) => r.Ok.commits[Len(r.Ok.commits)].id <= MaxCommitId
  /\ Returns(r)
  /\ UNCHANGED <<file, tmp, pc>>

CommitOp(message) == Commits(commit(Self, message))

Save ==
  /\ file' = save(Self)
  /\ result' = "Ok"
  /\ UNCHANGED <<memvars, tmp, pc>>

Load(mode) ==
  /\ Returns(load_with_mode(file, mode))
  /\ UNCHANGED <<file, tmp, pc>>

\* the call returned r
CompactReturns(r) ==
  /\ file' = r.file
  /\ result' = r.res
  /\ UNCHANGED <<memvars, tmp, pc>>

Compact(at) == CompactReturns(compact(file, at))

CompactTargets == {None} \cup {Some(i) : i \in 1..MaxCommitId}

Next ==
  \/ \E ty \in Types : Create(ty)
  \/ \E id \in NodeIds, key \in Keys, value \in Values : Set(id, key, value)
  \/ \E id \in NodeIds, key \in Keys : DeleteFieldOp(id, key)
  \/ \E id \in NodeIds : DeleteNodeOp(id)
  \/ \E message \in Messages : CommitOp(message)
  \/ Save
  \/ \E mode \in LoadModes : Load(mode)
  \/ \E at \in CompactTargets : Compact(at)

Spec == Init /\ [][Next]_vars

(***************************************************************************)
(* A second state machine, for the staging calls alone: one engine that    *)
(* creates nodes and stages mutations over every field name, up to         *)
(* MaxStaged of them, and never commits.                                   *)
(***************************************************************************)
\* the values SpecStaging sets fields to
StagedValues == {[Int |-> 1], [Int |-> 2]}

CanStageMore == Len(pending_mutations) < MaxStaged

CreateStaged(ty) ==
  /\ next_node_id <= MaxNodeId
  /\ CanStageMore
  /\ Returns(create(Self, ty))
  /\ UNCHANGED <<file, tmp, pc>>

\* a call that stages a mutation; the bound applies to the calls that succeed
StagesMore(r) ==
  /\ IsOk(r) => CanStageMore
  /\ Returns(r)
  /\ UNCHANGED <<file, tmp, pc>>

SetStaged(id, key, value) == StagesMore(set(Self, id, key, value))

DeleteFieldStaged(id, key) == StagesMore(delete_field(Self, id, key))

DeleteNodeStaged(id) == StagesMore(delete_node(Self, id))

NextStaging ==
  \/ \E ty \in Types : CreateStaged(ty)
  \/ \E id \in NodeIds, key \in FieldNames, value \in StagedValues :
       SetStaged(id, key, value)
  \/ \E id \in NodeIds, key \in FieldNames : DeleteFieldStaged(id, key)
  \/ \E id \in NodeIds : DeleteNodeStaged(id)

SpecStaging == Init /\ [][NextStaging]_vars

(***************************************************************************)
(* A third state machine, for references: the engine and its file, with    *)
(* fields set to values that hold a Ref inside a map inside a list and    *)
(* inside a list inside a map; the Ref to MaxNodeId + 1 never names a node *)
(***************************************************************************)
RefValues ==
  { [List |-> <<[Int |-> 1], [Map |-> [k |-> [Ref |-> MaxNodeId]]]>>],
    [Map |-> [k |-> [List |-> <<[Ref |-> MaxNodeId + 1]>>]]] }

CanStageRefs ==
  /\ Len(pending_mutations) < MaxPending
  /\ Len(pending_mutations) + Logged(commits) < MaxRefMutations

CreateRefs(ty) ==
  /\ next_node_id <= MaxNodeId
  /\ CanStageRefs
  /\ Returns(create(Self, ty))
  /\ UNCHANGED <<file, tmp, pc>>

\* a call that stages a mutation; the bound applies to the calls that succeed
StagesRefs(r) ==
  /\ IsOk(r) => CanStageRefs
  /\ Returns(r)
  /\ UNCHANGED <<file, tmp, pc>>

SetRefs(id, key, value) == StagesRefs(set(Self, id, key, value))

DeleteNodeRefs(id) == StagesRefs(delete_node(Self, id))

NextRefs ==
  \/ \E ty \in Types : CreateRefs(ty)
  \/ \E id \in NodeIds, key \in Keys, value \in RefValues : SetRefs(id, key, value)
  \/ \E id \in NodeIds : DeleteNodeRefs(id)
  \/ \E message \in Messages : CommitOp(message)
  \/ Save
  \/ \E mode \in LoadModes : Load(mode)
  \/ \E at \in CompactTargets : Compact(at)

SpecRefs == Init /\ [][NextRefs]_vars

(***************************************************************************)
(* A fourth state machine, for a file altered behind the engine's back:    *)
(* the engine saves its history, the stored hash of the first commit is    *)
(* overwritten (format_discipline_tests.rs:130, with 32 zero bytes), and   *)
(* the file is loaded in either mode.                                      *)
(***************************************************************************)
TamperedHashes == {ZERO32}

\* first["hash"] = h
Tamper(h) ==
  /\ file /= None
  /\ Unwrap(file).commits /= <<>>
  /\ Unwrap(file).commits[1].hash /= h
  /\ file' = Some([Unwrap(file) EXCEPT !.commits[1].hash = h])
  /\ result' = "Ok"
  /\ UNCHANGED <<memvars, tmp, pc>>

NextTamper ==
  \/ \E ty \in Types : Create(ty)
  \/ \E id \in NodeIds, key \in Keys, value \in Values : Set(id, key, value)
  \/ \E message \in Messages : CommitOp(message)
  \/ Save
  \/ \E h \in TamperedHashes : Tamper(h)
  \/ \E mode \in LoadModes : Load(mode)

SpecTamper == Init /\ [][NextTamper]_vars

(***************************************************************************)
(* A fifth state machine, for a file altered in one place (the way the     *)
(* tests hash_integrity_tests.rs and checkpoint_tests.rs edit the JSON):   *)
(* an engine builds a history, committing with and without a message, and *)
(* saves it; one field of one commit, of one checkpoint or of the root of  *)
(* the saved file is overwritten; the file is loaded in either mode, into  *)
(* a value of its own (let res = storage::load(path)).                     *)
(***************************************************************************)
CorruptMessages == {None, Some(""), Some("m")}
SavedMessages == {None, Some("m")}
SavedValues == {[Int |-> 1]}

\* the fields of a commit, of a checkpoint, of a node of a checkpoint's
\* state and of the root that are overwritten
CommitFields == {"id", "parent", "parent_hash", "hash", "message", "mutations"}
CheckpointFields == {"commit_id", "commit_hash"}
NodeFields == {"id", "ty", "fields", "deleted"}
RootFields == {"next_node_id"}
\* a kind of overwriting: the struct and its field
CorruptKinds ==
  ({"Commit"} \X CommitFields) \cup ({"Checkpoint"} \X CheckpointFields)
    \cup ({"Node"} \X NodeFields) \cup ({"StorageFormatV1"} \X RootFields)

\* what field of commit c is overwritten with
CommitFieldValues(c, field) ==
  IF field = "id" THEN {c.id + 1}
  ELSE IF field = "parent" THEN {None, Some(c.id)}
  ELSE IF field = "parent_hash" THEN {None, Some(ZERO32)}
  ELSE IF field = "hash" THEN {ZERO32}
  ELSE IF field = "message" THEN CorruptMessages
  ELSE {<<>>, Append(c.mutations, DeleteNode(1)), <<DeleteNode(MaxNodeId + 1)>>}

\* what field of checkpoint cp is overwritten with
CheckpointFieldValues(cp, field) ==
  IF field = "commit_id" THEN {cp.commit_id + 1} ELSE {ZERO32}

\* what field of node n is overwritten with
NodeFieldValues(n, field) ==
  IF field = "id" THEN {n.id + 1}
  ELSE IF field = "ty" THEN {"Tampered"}
  ELSE IF field = "fields" THEN {Insert(n.fields, SortedKeys[1], [Int |-> 2])}
  ELSE {~n.deleted}

\* the root objects that obj becomes when one field of the kind is overwritten
Overwritten(obj, kind) ==
  IF kind[1] = "Commit" THEN
    {[obj EXCEPT !.commits[i][kind[2]] = v] :
       <<i, v>> \in UNION {{i} \X CommitFieldValues(obj.commits[i], kind[2]) :
                            i \in 1..Len(obj.commits)}}
  ELSE IF kind[1] = "Checkpoint" THEN
    {[obj EXCEPT !.checkpoints[i][kind[2]] = v] :
       <<i, v>> \in UNION {{i} \X CheckpointFieldValues(obj.checkpoints[i], kind[2]) :
                            i \in 1..Len(obj.checkpoints)}}
  ELSE IF kind[1] = "Node" THEN
    {[obj EXCEPT !.checkpoints[p[1]].state[p[2]][kind[2]] = p[3]] :
       p \in UNION {{i} \X {id} \X NodeFieldValues(obj.checkpoints[i].state[id], kind[2]) :
                      <<i, id>> \in UNION {{i} \X DOMAIN obj.checkpoints[i].state :
                                             i \in 1..Len(obj.checkpoints)}}}
  ELSE {[obj EXCEPT !.next_node_id = 1]}

\* fs::write(path, ...) of the file as it was saved, with one field
\* overwritten by another value
Corrupt(kind) ==
  /\ file = save(Self)
  /\ file' \in {Some(f) : f \in Overwritten(Unwrap(file), kind) \ {Unwrap(file)}}
  /\ result' = "Ok"
  /\ UNCHANGED <<memvars, tmp, pc>>

\* the call returned r to a caller that keeps its engine
ResultIs(r) ==
  /\ result' = (IF IsOk(r) THEN "Ok" ELSE r.Err)
  /\ UNCHANGED <<memvars, file, tmp, pc>>

\* let res = storage::load_with_mode(path, mode)
LoadResult(mode) == ResultIs(load_with_mode(file, mode))

NextCorrupt ==
  \/ file = None /\ \E ty \in Types : Create(ty)
  \/ file = None /\ \E id \in NodeIds, key \in Keys, value \in SavedValues :
                       Set(id, key, value)
  \/ file = None /\ \E message \in SavedMessages : CommitOp(message)
  \/ Save
  \/ \E kind \in CorruptKinds : Corrupt(kind)
  \/ \E mode \in LoadModes : LoadResult(mode)

SpecCorrupt == Init /\ [][NextCorrupt]_vars

(***************************************************************************)
(* A state machine for the genesis anchor of the file: an engine builds a  *)
(* history and saves it, the file may be compacted, and then the genesis   *)
(* snapshot or its hash is overwritten in the file and the file is loaded. *)
(***************************************************************************)
\* the snapshots that the genesis snapshot genesis is overwritten with: none,
\* and the snapshot with one field of one node overwritten
GenesisStateValues(genesis) ==
  {None} \cup
    (IF IsSome(genesis)
     THEN {Some([Unwrap(genesis) EXCEPT ![p[1]][p[2]] = p[3]]) :
             p \in UNION {{id} \X {field} \X NodeFieldValues(Unwrap(genesis)[id], field) :
                            <<id, field>> \in (DOMAIN Unwrap(genesis)) \X NodeFields}}
     ELSE {Some(EmptyMap)})

\* the root objects that obj becomes when genesis_state_hash or genesis_state
\* is overwritten
GenesisOverwritten(obj) ==
  {[obj EXCEPT !.genesis_state_hash = h] : h \in {None, Some(ZERO32)}}
    \cup {[obj EXCEPT !.genesis_state = g] : g \in GenesisStateValues(obj.genesis_state)}

\* the files that save and compact leave for the engine
WrittenFiles == {save(Self)} \cup {compact(save(Self), at).file : at \in CompactTargets}

\* fs::write(path, ...) of the root object obj, the file with the genesis
\* snapshot or its hash overwritten by another value
CorruptGenesis(obj) ==
  /\ obj /= Unwrap(file)
  /\ file' = Some(obj)
  /\ result' = "Ok"
  /\ UNCHANGED <<memvars, tmp, pc>>

NextGenesis ==
  \/ file = None /\ \E ty \in Types : Create(ty)
  \/ file = None /\ \E id \in NodeIds, key \in Keys, value \in SavedValues :
                       Set(id, key, value)
  \/ file = None /\ \E id \in NodeIds : DeleteNodeOp(id)
  \/ file = None /\ \E message \in SavedMessages : CommitOp(message)
  \/ Save
  \/ file = save(Self) /\ \E at \in CompactTargets : Compact(at)
  \/ file \in WrittenFiles /\ \E obj \in GenesisOverwritten(Unwrap(file)) :
                                 CorruptGenesis(obj)
  \/ \E mode \in LoadModes : LoadResult(mode)

SpecGenesis == Init /\ [][NextGenesis]_vars

(***************************************************************************)
(* A state machine for the header of the file: an engine builds a history, *)
(* saves it and may compact it; the root object of the file is then        *)
(* edited as the tests of the format edit it, a key removed or a key       *)
(* inserted, and the file is loaded and saved again.                       *)
(***************************************************************************)
HeaderMagics == {FILE_MAGIC, "WRONG"}
\* format_version as an unsigned integer, below 2^32 and from 2^32 on, and as
\* a JSON value that is none
HeaderVersions ==
  {[hi |-> h, lo |-> l] : h \in {0, 1}, l \in {0, FORMAT_VERSION, FORMAT_VERSION + 1}}
    \cup {[String |-> "1"], [I64 |-> -1]}
\* the keys that are removed, and the key no schema knows
RemovedKeys == {"magic", "format_version", "next_node_id"}
UnknownKeys == {"extra"}

\* serde_json::Map::insert and remove
Inserted(obj, key, value) ==
  [k \in DOMAIN obj \cup {key} |-> IF k = key THEN value ELSE obj[k]]
Removed(obj, key) == [k \in DOMAIN obj \ {key} |-> obj[k]]

\* fs::write(path, ...) of the root object edited
Rewrites(obj) ==
  /\ file /= None
  /\ obj /= Unwrap(file)
  /\ file' = Some(obj)
  /\ result' = "Ok"
  /\ UNCHANGED <<memvars, tmp, pc>>

InsertMagic(magic) == file /= None /\ Rewrites(Inserted(Unwrap(file), "magic", magic))

InsertFormatVersion(version) ==
  file /= None /\ Rewrites(Inserted(Unwrap(file), "format_version", version))

InsertUnknown(key) == file /= None /\ Rewrites(Inserted(Unwrap(file), key, 0))

RemoveKey(key) == file /= None /\ Rewrites(Removed(Unwrap(file), key))

NextHeader ==
  \/ file = None /\ \E ty \in Types : Create(ty)
  \/ file = None /\ \E id \in NodeIds, key \in Keys, value \in SavedValues :
                       Set(id, key, value)
  \/ file = None /\ \E message \in SavedMessages : CommitOp(message)
  \/ Save
  \/ file = save(Self) /\ \E at \in CompactTargets : Compact(at)
  \/ \E magic \in HeaderMagics : InsertMagic(magic)
  \/ \E version \in HeaderVersions : InsertFormatVersion(version)
  \/ \E key \in UnknownKeys : InsertUnknown(key)
  \/ \E key \in RemovedKeys : RemoveKey(key)
  \/ \E mode \in LoadModes : Load(mode)

SpecHeader == Init /\ [][NextHeader]_vars

(***************************************************************************)
(* A state machine for compact step by step: an engine builds a     *)
(* history and saves it; compact loads the file and rewrites the store in  *)
(* memory, writes <path>.tmp, reloads it and compares the head state       *)
(* hashes, and renames it over <path>.  fs::write and fs::rename may fail  *)
(* (the error is named "Io" here), and then they change no file.           *)
(***************************************************************************)
\* storage.rs:190-213, with the retained commits and checkpoints
CompactMem(mem, new_genesis, new_hash, relinked, kept) ==
  IF ~IsOk(kept) THEN kept
  ELSE Ok([mem EXCEPT !.genesis_state = Some(new_genesis),
                      !.genesis_state_hash = Some(new_hash),
                      !.commits = relinked,
                      !.checkpoints = kept.Ok])

\* storage.rs:185-213: mem after the rewriting, or the error
CompactRewritten(mem, target_commit_id, new_genesis) ==
  IF ~IsOk(new_genesis) THEN new_genesis
  ELSE CompactMem(mem, new_genesis.Ok, compute_state_hash(new_genesis.Ok),
         CompactCommits(mem, target_commit_id, compute_state_hash(new_genesis.Ok)),
         CompactCheckpoints(mem, target_commit_id,
           CompactCommits(mem, target_commit_id,
                          compute_state_hash(new_genesis.Ok))))

\* storage.rs:171-213
CompactTargetedMem(mem, target) ==
  IF ~IsOk(target) THEN target
  ELSE CompactRewritten(mem, target.Ok, state_at_commit(mem, target.Ok))

\* storage.rs:168-213
CompactPrepared(loaded, at) ==
  IF ~IsOk(loaded) THEN loaded
  ELSE CompactTargetedMem(loaded.Ok, CompactionTarget(loaded.Ok, at))

\* storage.rs:168-213: compact loads the file and rewrites the store in
\* memory, or returns the error
CompactBegins(at, prepared) ==
  /\ pc = Idle
  /\ IF IsOk(prepared)
     THEN /\ pc' = [step |-> "rewritten", at |-> at, mem |-> prepared.Ok,
                    before_state_hash |-> compute_state_hash(prepared.Ok.head_state)]
          /\ UNCHANGED result
     ELSE /\ pc' = Idle
          /\ result' = prepared.Err
  /\ UNCHANGED <<memvars, file, tmp>>

CompactBegin(at) == CompactBegins(at, CompactPrepared(load(file), at))

\* CompactSaveTmp writing to <path> itself
CompactSaveInPlace ==
  /\ pc.step = "rewritten"
  /\ file' = save(pc.mem)
  /\ pc' = [pc EXCEPT !.step = "saved"]
  /\ UNCHANGED <<memvars, tmp, result>>

\* storage.rs:215-216: save(&tmp_path, &mem)?
CompactSaveTmp ==
  /\ pc.step = "rewritten"
  /\ tmp' = save(pc.mem)
  /\ pc' = [pc EXCEPT !.step = "saved"]
  /\ UNCHANGED <<memvars, file, result>>

CompactSaveTmpFails ==
  /\ pc.step = "rewritten"
  /\ pc' = Idle
  /\ result' = "Io"
  /\ UNCHANGED <<memvars, file, tmp>>

\* storage.rs:218-223: the reload of the temp file and the comparison
CompactReloads(reloaded) ==
  /\ pc.step = "saved"
  /\ IF ~IsOk(reloaded)
     THEN pc' = Idle /\ result' = reloaded.Err /\ UNCHANGED tmp
     ELSE IF compute_state_hash(reloaded.Ok.head_state) /= pc.before_state_hash
     THEN pc' = Idle /\ result' = "CompactionIntegrityMismatch" /\ tmp' = None
     ELSE pc' = [pc EXCEPT !.step = "verified"] /\ UNCHANGED <<tmp, result>>
  /\ UNCHANGED <<memvars, file>>

CompactReload == CompactReloads(load(tmp))

\* storage.rs:225-227: fs::rename(&tmp_path, path)
CompactRename ==
  /\ pc.step = "verified"
  /\ file' = tmp
  /\ tmp' = None
  /\ pc' = Idle
  /\ result' = "Ok"
  /\ UNCHANGED memvars

CompactRenameFails ==
  /\ pc.step = "verified"
  /\ pc' = Idle
  /\ result' = "Io"
  /\ UNCHANGED <<memvars, file, tmp>>

\* a step of compact
CompactStep ==
  \/ \E at \in CompactTargets : CompactBegin(at)
  \/ CompactSaveTmp
  \/ CompactSaveTmpFails
  \/ CompactReload
  \/ CompactRename
  \/ CompactRenameFails

NextCompactSteps ==
  \/ file = None /\ \E ty \in Types : Create(ty)
  \/ file = None /\ \E id \in NodeIds, key \in Keys, value \in Values :
                       Set(id, key, value)
  \/ file = None /\ \E id \in NodeIds : DeleteNodeOp(id)
  \/ file = None /\ \E message \in Messages : CommitOp(message)
  \/ pc = Idle /\ Save
  \/ CompactStep

SpecCompactSteps == Init /\ [][NextCompactSteps]_vars

(***************************************************************************)
(* The stores of a state: the engine, and the store the file holds when    *)
(* the file deserializes (taken as it is written, before any validation).  *)
(***************************************************************************)
ParsedStores(sf) == IF IsOk(sf) THEN {to_memory(sf.Ok)} ELSE {}

FileStores == IF file = None THEN {} ELSE ParsedStores(ParseV1(Unwrap(file)))

Stores == {Self} \cup FileStores

\* a store carries a genesis snapshot once it was compacted: compact is the
\* only writer of genesis_state (storage.rs:190)
Compacted(s) == IsSome(s.genesis_state)

(***************************************************************************)
(* Properties.                                                             *)
(***************************************************************************)
\* C1: in every reachable store, every commit after the first has the id of
\* its predecessor plus one, its predecessor's id as parent and its
\* predecessor's hash as parent_hash.
C1_ChainLinks ==
  \A s \in Stores : \A i \in 2..Len(s.commits) :
    /\ s.commits[i].id = s.commits[i - 1].id + 1
    /\ s.commits[i].parent = Some(s.commits[i - 1].id)
    /\ s.commits[i].parent_hash = Some(s.commits[i - 1].hash)

\* a compacted file that kept two commits, relinked
C1_Witness ==
  \E s \in FileStores :
    /\ Compacted(s)
    /\ Len(s.commits) >= 2
    /\ s.commits[2].parent_hash = Some(s.commits[1].hash)

\* C2: the first commit of every reachable store has no parent; its
\* parent_hash is None in a store that was never compacted and the store's
\* genesis_state_hash in a compacted one.
C2_FirstCommit ==
  \A s \in Stores :
    s.commits /= <<>> =>
      /\ s.commits[1].parent = None
      /\ s.commits[1].parent_hash = s.genesis_state_hash
      /\ ~Compacted(s) => s.commits[1].parent_hash = None
      /\ Compacted(s) => IsSome(s.commits[1].parent_hash)

\* the first commit made after a compaction that emptied the log
C2_Witness ==
  /\ Compacted(Self)
  /\ commits /= <<>>
  /\ commits[1].id = 1
  /\ IsSome(commits[1].parent_hash)
  /\ commits[1].parent_hash = genesis_state_hash

\* C3: in every reachable store, every commit's hash is compute_commit_hash
\* of its parent_hash, message and mutations.
C3_CommitHashes ==
  \A s \in Stores : \A i \in 1..Len(s.commits) :
    s.commits[i].hash =
      compute_commit_hash(s.commits[i].parent_hash, s.commits[i].message,
                          s.commits[i].mutations)

\* an engine that loaded a compacted store whose first commit was relinked
C3_Witness ==
  /\ Compacted(Self)
  /\ commits /= <<>>
  /\ commits[1].id > 1
  /\ commits[1].hash =
       compute_commit_hash(genesis_state_hash, commits[1].message,
                           commits[1].mutations)

\* C4: in every reachable store, every checkpoint names a commit of the
\* commit list, holds that commit's hash, and holds the state hash of the
\* state it stores.
C4_Checkpoints ==
  \A s \in Stores : \A i \in 1..Len(s.checkpoints) :
    /\ Position(s.commits, s.checkpoints[i].commit_id) /= 0
    /\ s.checkpoints[i].commit_hash =
         s.commits[Position(s.commits, s.checkpoints[i].commit_id)].hash
    /\ s.checkpoints[i].state_hash = compute_state_hash(s.checkpoints[i].state)

\* a compacted file that kept a checkpoint, whose commit was rehashed
C4_Witness ==
  \E s \in FileStores :
    /\ Compacted(s)
    /\ s.checkpoints /= <<>>
    /\ s.commits[1].parent_hash = s.genesis_state_hash
    /\ s.checkpoints[1].commit_hash =
         s.commits[Position(s.commits, s.checkpoints[1].commit_id)].hash

\* the state a store's commits replay to from its genesis snapshot, or from
\* the empty state when it has none
Replayed(s) == replay_from(GenesisOrEmpty(s), s.commits)

\* C5: after any commit, the head state is the state obtained by replaying
\* all commits from the genesis state (the empty state when there is none).
C5_HeadIsReplay ==
  [][(\E message \in Messages : CommitOp(message)) /\ result' = "Ok"
       => Replayed(Self)' = Ok(head_state')]_vars

\* a commit made on top of a genesis snapshot: the head is the replay from
\* the snapshot, not the replay from the empty state
C5_Witness ==
  /\ Compacted(Self)
  /\ commits /= <<>>
  /\ commits[1].id = 1
  /\ pending_mutations = <<>>
  /\ result = "Ok"
  /\ Replayed(Self) = Ok(head_state)
  /\ replay(commits) /= Ok(head_state)

\* the node a mutation names
TargetId(m) ==
  IF Is(m, "CreateNode") THEN m.CreateNode.id
  ELSE IF Is(m, "SetField") THEN m.SetField.id
  ELSE IF Is(m, "DeleteField") THEN m.DeleteField.id
  ELSE m.DeleteNode.id

\* C6: in every reachable store, next_node_id is greater than every node id
\* of the replayed head, and in the engine than every id of the head and of
\* the pending buffer.
C6_NextNodeId ==
  /\ \A s \in Stores :
        /\ IsOk(Replayed(s))
        /\ s.next_node_id > MaxId(DOMAIN Replayed(s).Ok)
  /\ next_node_id > MaxId(DOMAIN head_state)
  /\ \A j \in 1..Len(pending_mutations) :
        next_node_id > TargetId(pending_mutations[j])

\* an engine over a compacted store with a created node pending
C6_Witness ==
  /\ Compacted(Self)
  /\ DOMAIN Unwrap(genesis_state) /= {}
  /\ pending_mutations /= <<>>
  /\ Is(pending_mutations[1], "CreateNode")
  /\ pending_mutations[1].CreateNode.id = next_node_id - 1
  /\ next_node_id - 1 > MaxId(DOMAIN Replayed(Self).Ok)

\* the observable state of two stores is the same
SameStore(a, b) ==
  /\ a.head_state = b.head_state
  /\ a.commits = b.commits
  /\ a.checkpoints = b.checkpoints
  /\ a.next_node_id = b.next_node_id
  /\ a.genesis_state = b.genesis_state
  /\ a.genesis_state_hash = b.genesis_state_hash

\* the store comes back from the file as it was saved
CameBack(s, loaded) == IsOk(loaded) /\ SameStore(s, loaded.Ok)

\* C7: saving a store with nothing pending and loading the file back gives
\* a store with the same head, commits, checkpoints, next_node_id,
\* genesis_state and genesis_state_hash.
C7_SaveLoadRoundTrip ==
  pending_mutations = <<>> => CameBack(Self, load(save(Self)))

\* C8: for every file that loads and every valid compaction target, compact
\* succeeds and the store loaded afterwards has the head state, tombstones
\* included, and the head state hash of the store loaded before.
C8_CompactionKeepsHead ==
  \A at \in CompactTargets :
    LET before == load(file) IN
    IsOk(before) /\ IsOk(CompactionTarget(before.Ok, at)) =>
      LET done == compact(file, at)
          after == load(done.file)
      IN  /\ done.res = "Ok"
          /\ IsOk(after)
          /\ after.Ok.head_state = before.Ok.head_state
          /\ compute_state_hash(after.Ok.head_state)
               = compute_state_hash(before.Ok.head_state)

\* a compacted file whose genesis snapshot holds a tombstone, which the
\* store loaded from it still has
C8_Witness ==
  /\ result = "Ok"
  /\ \E s \in FileStores :
        /\ Compacted(s)
        /\ \E id \in DOMAIN Unwrap(s.genesis_state) :
              /\ Unwrap(s.genesis_state)[id].deleted
              /\ IsOk(load(file))
              /\ id \in DOMAIN load(file).Ok.head_state
              /\ load(file).Ok.head_state[id].deleted

\* the commit ids that have a checkpoint
Checkpointed(s) == {s.checkpoints[i].commit_id : i \in 1..Len(s.checkpoints)}

\* C9: in every reachable store a commit has a checkpoint if and only if
\* its index is a multiple of the checkpoint interval, the index being read
\* as the commit's position in the list or as the commit's id.
C9_CheckpointsAtMultiples ==
  \A s \in Stores :
    \/ \A i \in 1..Len(s.commits) :
         s.commits[i].id \in Checkpointed(s) <=> i % CHECKPOINT_INTERVAL = 0
    \/ \A i \in 1..Len(s.commits) :
         s.commits[i].id \in Checkpointed(s)
           <=> s.commits[i].id % CHECKPOINT_INTERVAL = 0

\* C10: in every reachable store with a checkpoint, replaying the commits
\* after the latest checkpoint from its stored state gives the state that
\* replaying all commits from genesis gives.
C10_CheckpointReplay ==
  \A s \in Stores :
    s.checkpoints /= <<>> =>
      /\ IsOk(ReplayFromAnchor(s))
      /\ ReplayFromAnchor(s) = Replayed(s)

\* a compacted store with a checkpoint and a commit after it
C10_Witness ==
  \E s \in Stores :
    /\ Compacted(s)
    /\ s.checkpoints /= <<>>
    /\ Last(s.commits).id > Last(s.checkpoints).commit_id
    /\ ReplayFromAnchor(s) = Replayed(s)

\* the commit ids state_at_commit is asked for: those the log can hold, and
\* one more
CommitIds == 1..(MaxCommitId + 1)

\* the commits of s with an id up to t
CommitsUpTo(s, t) == SelectSeq(s.commits, LAMBDA c : c.id <= t)

\* C11: for every commit id t of the log, state_at_commit(t) is the state
\* replayed from the genesis snapshot (or the empty state) over the commits
\* with id <= t; for an id that is not in the log it is CommitNotFound.
C11_StateAtCommit ==
  \A s \in Stores : \A t \in CommitIds :
    IF Position(s.commits, t) = 0
    THEN state_at_commit(s, t) = Err("CommitNotFound")
    ELSE /\ IsOk(state_at_commit(s, t))
         /\ state_at_commit(s, t) = replay_from(GenesisOrEmpty(s), CommitsUpTo(s, t))

\* a compacted store with a checkpoint and a commit after it: the state at
\* the last commit is replayed from the checkpoint, the state at the
\* checkpoint's commit is the checkpoint's
C11_Witness ==
  \E s \in Stores :
    /\ Compacted(s)
    /\ s.checkpoints /= <<>>
    /\ Last(s.commits).id > Last(s.checkpoints).commit_id
    /\ state_at_commit(s, Last(s.commits).id) = Replayed(s)
    /\ state_at_commit(s, Last(s.checkpoints).commit_id)
         = Ok(Last(s.checkpoints).state)
    /\ state_at_commit(s, Last(s.commits).id + 1) = Err("CommitNotFound")

\* commit k is in the log of a and of b, with the same result of
\* state_at_commit(k)
SameHistory(a, b) ==
  \A k \in CommitIds :
    Position(a.commits, k) /= 0 /\ Position(b.commits, k) /= 0
      => state_at_commit(a, k) = state_at_commit(b, k)

\* C12: history is immutable: over every step of the engine (staging,
\* commit, load) and of the file (save, compaction), a commit that stays
\* in the log keeps its result of state_at_commit.
C12_HistoryImmutable ==
  [][/\ SameHistory(Self, Self')
     /\ \A a \in FileStores : \A b \in FileStores' : SameHistory(a, b)]_vars

\* an engine over a store compacted below commit 2, which deleted node 1:
\* the genesis snapshot (the state at commit 1) holds the node not deleted,
\* the state at commit 2 holds it deleted
C12_Witness ==
  /\ Compacted(Self)
  /\ commits /= <<>>
  /\ commits[1].id = 2
  /\ 1 \in DOMAIN Unwrap(genesis_state)
  /\ ~Unwrap(genesis_state)[1].deleted
  /\ IsOk(state_at_commit(Self, 2))
  /\ state_at_commit(Self, 2).Ok[1].deleted

C14_NoEmptyCommit ==
  /\ pending_mutations = <<>> =>
       \A message \in Messages \cup {None} :
         commit(Self, message) = Err("InvalidInput")
  /\ \A s \in Stores : \A i \in 1..Len(s.commits) : s.commits[i].mutations /= <<>>

\* a commit on an empty pending buffer was refused, on a log with commits
C14_Witness ==
  /\ result = "InvalidInput"
  /\ pending_mutations = <<>>
  /\ commits /= <<>>

\* a step of set, delete_field or delete_node
StagingStep ==
  \/ \E id \in NodeIds, key \in Keys, value \in Values : Set(id, key, value)
  \/ \E id \in NodeIds, key \in Keys : DeleteFieldOp(id, key)
  \/ \E id \in NodeIds : DeleteNodeOp(id)

StagedOnly(self, after, m) ==
  /\ after.pending_mutations = Append(self.pending_mutations, m)
  /\ after.commits = self.commits
  /\ after.checkpoints = self.checkpoints
  /\ after.next_node_id = self.next_node_id
  /\ after.genesis_state = self.genesis_state
  /\ after.genesis_state_hash = self.genesis_state_hash

\* the head of after is the head of self but for node id
OtherNodesKept(self, after, id) ==
  /\ DOMAIN after.head_state = DOMAIN self.head_state
  /\ \A other \in DOMAIN self.head_state \ {id} :
        after.head_state[other] = self.head_state[other]

\* node id of after is node id of self but for its field key
OtherFieldsKept(self, after, id, key) ==
  /\ after.head_state[id].id = self.head_state[id].id
  /\ after.head_state[id].ty = self.head_state[id].ty
  /\ after.head_state[id].deleted = self.head_state[id].deleted
  /\ DOMAIN after.head_state[id].fields \ {key}
       = DOMAIN self.head_state[id].fields \ {key}
  /\ \A other \in DOMAIN self.head_state[id].fields \ {key} :
        after.head_state[id].fields[other] = self.head_state[id].fields[other]

\* r is what set(id, key, value) has to return on self
SetReturns(self, id, key, value, r) ==
  IF id \notin DOMAIN self.head_state THEN r = Err("NodeNotFound")
  ELSE IF self.head_state[id].deleted THEN r = Err("NodeDeleted")
  ELSE /\ IsOk(r)
       /\ StagedOnly(self, r.Ok, SetField(id, key, value))
       /\ OtherNodesKept(self, r.Ok, id)
       /\ OtherFieldsKept(self, r.Ok, id, key)
       /\ key \in DOMAIN r.Ok.head_state[id].fields
       /\ r.Ok.head_state[id].fields[key] = value

\* C16: set(id, key, value) returns NodeNotFound when id is not in the head
\* and NodeDeleted when the node is tombstoned; otherwise it sets that one
\* field of that node, appends one SetField to the pending buffer and leaves
\* every other node and field as it was.
C16_Set ==
  \A id \in NodeIds, key \in FieldNames, value \in Values \cup StagedValues :
    SetReturns(Self, id, key, value, set(Self, id, key, value))

\* a field was set and then overwritten, on a node that has another field
C16_Witness ==
  /\ result = "Ok"
  /\ Len(pending_mutations) = MaxStaged
  /\ pending_mutations[2] = SetField(1, "k", [Int |-> 1])
  /\ pending_mutations[3] = SetField(1, "l", [Int |-> 1])
  /\ pending_mutations[4] = SetField(1, "k", [Int |-> 2])
  /\ head_state[1].fields["k"] = [Int |-> 2]
  /\ head_state[1].fields["l"] = [Int |-> 1]

\* r is what delete_node(id) has to return on self
DeleteNodeReturns(self, id, r) ==
  IF id \notin DOMAIN self.head_state THEN r = Err("DeleteNonexistentNode")
  ELSE IF self.head_state[id].deleted THEN r = Err("DeleteOnDeletedNode")
  ELSE /\ IsOk(r)
       /\ StagedOnly(self, r.Ok, DeleteNode(id))
       /\ OtherNodesKept(self, r.Ok, id)
       /\ r.Ok.head_state[id] = [self.head_state[id] EXCEPT !.deleted = TRUE]
       /\ r.Ok.head_state[id].ty = self.head_state[id].ty
       /\ r.Ok.head_state[id].fields = self.head_state[id].fields

\* C17: delete_node(id) returns DeleteNonexistentNode when the node is
\* absent and DeleteOnDeletedNode when it is tombstoned, in every reachable
\* state (after a commit and after a reload too); on success it only sets
\* deleted, and the node stays in the state with its type and fields.
C17_DeleteNode ==
  \A id \in NodeIds : DeleteNodeReturns(Self, id, delete_node(Self, id))

\* a second delete of a node was refused by an engine that loaded a
\* compacted store, where the tombstone still has its field
C17_Witness ==
  /\ Compacted(Self)
  /\ result = "DeleteOnDeletedNode"
  /\ \E id \in DOMAIN head_state :
        /\ head_state[id].deleted
        /\ DOMAIN head_state[id].fields /= {}
        /\ delete_node(Self, id) = Err("DeleteOnDeletedNode")

\* the store after committing the pending buffer of after
Committed(after) == commit(after, Some("m"))

\* r is what delete_field(id, key) has to return on self
DeleteFieldReturns(self, id, key, r) ==
  IF id \notin DOMAIN self.head_state THEN r = Err("DeleteNonexistentNode")
  ELSE IF self.head_state[id].deleted THEN r = Err("DeleteOnDeletedNode")
  ELSE IF key \notin DOMAIN self.head_state[id].fields THEN r = Err("FieldNotFound")
  ELSE /\ IsOk(r)
       /\ StagedOnly(self, r.Ok, DeleteField(id, key))
       /\ OtherNodesKept(self, r.Ok, id)
       /\ OtherFieldsKept(self, r.Ok, id, key)
       /\ key \notin DOMAIN r.Ok.head_state[id].fields
       /\ IsOk(Committed(r.Ok))
       /\ Replayed(Committed(r.Ok).Ok) = Ok(r.Ok.head_state)
       /\ key \notin DOMAIN Replayed(Committed(r.Ok).Ok).Ok[id].fields

\* C18: delete_field(id, key) returns DeleteNonexistentNode when the node
\* is absent, DeleteOnDeletedNode when it is tombstoned and FieldNotFound
\* when key is not a field of the node; otherwise it removes that one field,
\* and the replay of the resulting commit gives the node without it.
C18_DeleteField ==
  \A id \in NodeIds, key \in FieldNames :
    DeleteFieldReturns(Self, id, key, delete_field(Self, id, key))

\* a field was deleted from a node that keeps another field
C18_Witness ==
  /\ result = "Ok"
  /\ Len(pending_mutations) = MaxStaged
  /\ pending_mutations[MaxStaged] = DeleteField(1, "k")
  /\ DOMAIN head_state[1].fields = {"l"}

\* the node ids that the Refs of value v name, at every nesting depth
RECURSIVE Refs(_)
Refs(v) ==
  IF Is(v, "Ref") THEN {v.Ref}
  ELSE IF Is(v, "List") THEN UNION {Refs(v.List[i]) : i \in 1..Len(v.List)}
  ELSE IF Is(v, "Map") THEN UNION {Refs(v.Map[key]) : key \in DOMAIN v.Map}
  ELSE {}

\* every Ref in a field of state names a node of state
NoDangling(state) ==
  \A id \in DOMAIN state : \A key \in DOMAIN state[id].fields :
    Refs(state[id].fields[key]) \subseteq DOMAIN state

\* the node ids of the state that pending mutation i of self is applied to
PresentAt(self, i) ==
  DOMAIN Replayed(self).Ok
    \cup {self.pending_mutations[j].CreateNode.id :
            j \in {n \in 1..(i - 1) : Is(self.pending_mutations[n], "CreateNode")}}

\* a pending SetField of self holds a Ref to a node that is not there
StagedDangling(self) ==
  \E i \in 1..Len(self.pending_mutations) :
    /\ Is(self.pending_mutations[i], "SetField")
    /\ ~(Refs(self.pending_mutations[i].SetField.value) \subseteq PresentAt(self, i))

\* r is what commit may return on self as far as references go
CommitRefs(self, r) ==
  /\ StagedDangling(self) => ~IsOk(r)
  /\ IsOk(r) => NoDangling(r.Ok.head_state) /\ NoDangling(Replayed(r.Ok).Ok)

\* r is what state_at_commit may return as far as references go
StateRefs(r) == IsOk(r) => NoDangling(r.Ok)

\* C19: commit rejects a pending SetField whose value holds, at any depth
\* in lists and maps, a Ref to a node that is not in the state at that
\* point; the head after a commit, the replay of every store and every
\* state_at_commit result hold no Ref to a node that is not in them.
C19_NoDanglingRef ==
  /\ \A message \in Messages : CommitRefs(Self, commit(Self, message))
  /\ \A s \in Stores :
        /\ IsOk(Replayed(s)) /\ NoDangling(Replayed(s).Ok)
        /\ \A t \in CommitIds : StateRefs(state_at_commit(s, t))

\* a nested Ref to a present node was committed, and then a commit of a
\* nested Ref to a missing node was refused
C19_Witness ==
  /\ result = "Invariant"
  /\ StagedDangling(Self)
  /\ \E id \in DOMAIN Replayed(Self).Ok :
        /\ Keys \subseteq DOMAIN Replayed(Self).Ok[id].fields
        /\ \E key \in Keys :
             /\ Is(Replayed(Self).Ok[id].fields[key], "List")
             /\ Refs(Replayed(Self).Ok[id].fields[key]) = {MaxNodeId}
  /\ \E i \in 1..Len(pending_mutations) :
        /\ Is(pending_mutations[i], "SetField")
        /\ Is(pending_mutations[i].SetField.value, "Map")

\* a step that alters the stored hash of commits[0] in a saved history of
\* n commits
Tampers(n) ==
  /\ file /= None
  /\ Len(Unwrap(file).commits) = n
  /\ \E h \in TamperedHashes : Tamper(h)

\* the loads of the altered file f, as the specification states them
UnsafeLoads(f) ==
  /\ load_with_mode(f, "Strict") = Err("CorruptCommitHash")
  /\ IsOk(load_with_mode(f, "Unsafe"))

\* the loads of the altered file f of two commits
BothLoadsFail(f) ==
  IF values_parse(Unwrap(f))
  THEN /\ load_with_mode(f, "Strict") = Err("CorruptCommitHash")
       /\ load_with_mode(f, "Unsafe") = Err("CorruptParentHash")
  ELSE \A mode \in LoadModes :
         load_with_mode(f, mode) = Err("MalformedFileStructure")

\* C20 as the specification states it: after saving a 2-commit history and
\* altering only the stored hash of commits[0], Strict load fails with
\* CorruptCommitHash and Unsafe load succeeds.
C20_UnsafeLoadSucceeds == [][Tampers(2) => UnsafeLoads(file')]_vars

\* C20, amended: after saving a 2-commit history and altering only the
\* stored hash of commits[0], Strict load fails with CorruptCommitHash and
\* Unsafe load fails with CorruptParentHash, the second commit's parent_hash
\* no longer being the first commit's hash; both fail with
\* MalformedFileStructure when the history holds a float that is not finite.
C20_TamperedHash == [][Tampers(2) => BothLoadsFail(file')]_vars

\* the Unsafe load of an altered 2-commit file that parses was refused
C20_Witness ==
  /\ file /= None
  /\ Len(Unwrap(file).commits) = 2
  /\ Unwrap(file).commits[1].hash \in TamperedHashes
  /\ values_parse(Unwrap(file))
  /\ result = "CorruptParentHash"

\* the store that the root object of file f deserializes to
Stored(f) == to_memory(ParseV1(Unwrap(f)).Ok)

\* the ways a store is corrupt in its structure or its chain linkage
NonContiguousIds(s) ==
  \E i \in 2..Len(s.commits) : s.commits[i].id /= s.commits[i - 1].id + 1

WrongParentId(s) ==
  \E i \in 1..Len(s.commits) :
    s.commits[i].parent /= (IF i = 1 THEN None ELSE Some(s.commits[i - 1].id))

WrongParentHash(s) ==
  \E i \in 1..Len(s.commits) :
    s.commits[i].parent_hash
      /= (IF i = 1 THEN s.genesis_state_hash ELSE Some(s.commits[i - 1].hash))

CheckpointOffCommit(s) ==
  \E i \in 1..Len(s.checkpoints) :
    \A j \in 1..Len(s.commits) :
      \/ s.commits[j].id /= s.checkpoints[i].commit_id
      \/ s.commits[j].hash /= s.checkpoints[i].commit_hash

ReplayFails(s) == ~IsOk(ReplayFromAnchor(s))

NextNodeIdLow(s) ==
  /\ IsOk(ReplayFromAnchor(s))
  /\ s.next_node_id <= MaxId(DOMAIN ReplayFromAnchor(s).Ok)

StructurallyCorrupt(s) ==
  \/ NonContiguousIds(s) \/ WrongParentId(s) \/ WrongParentHash(s)
  \/ CheckpointOffCommit(s) \/ ReplayFails(s) \/ NextNodeIdLow(s)

\* the errors of the two recomputations that Unsafe skips
HashErrors == {Err("CorruptCommitHash"), Err("CorruptCheckpointHash")}

\* strict and unsafe are what the two loads of the stored s may return
LoadsAlike(s, strict, unsafe) ==
  /\ StructurallyCorrupt(s) => ~IsOk(strict) /\ ~IsOk(unsafe)
  /\ strict \in HashErrors \/ unsafe = strict

\* C21: a file with non-contiguous commit ids, a wrong parent id, a wrong
\* parent_hash, a checkpoint without its commit or with another commit_hash,
\* a failing replay or a next_node_id not above the largest id is refused in
\* both modes, and the Unsafe load returns what the Strict load returns
\* unless that is CorruptCommitHash or CorruptCheckpointHash.
C21_UnsafeSkipsHashesOnly ==
  file /= None =>
    LoadsAlike(Stored(file), load_with_mode(file, "Strict"),
               load_with_mode(file, "Unsafe"))

\* a load was refused for a checkpoint whose commit_hash was overwritten,
\* in a file whose Unsafe load is refused too
C21_Witness ==
  /\ file /= None
  /\ file /= save(Self)
  /\ result = "CheckpointCommitMismatch"
  /\ CheckpointOffCommit(Stored(file))
  /\ ~WrongParentHash(Stored(file))
  /\ load_with_mode(file, "Unsafe") = Err("CheckpointCommitMismatch")

\* C22: the Strict load fails for every saved file in which the message or
\* the mutation list of a commit was overwritten with another value, the
\* stored hashes being left as they were.
C22_ContentChangeDetected ==
  [][Corrupt(<<"Commit", "message">>) \/ Corrupt(<<"Commit", "mutations">>)
       => ~IsOk(load_with_mode(file', "Strict"))]_vars

\* C23: the Strict load fails for every saved file in which the id, the
\* type, the fields or the deleted flag of a node of a checkpoint's state
\* was overwritten, the state_hash being left as it was, and for every file
\* in which a checkpoint's commit_hash was overwritten.
C23_CheckpointChangeDetected ==
  [][(\E kind \in ({"Node"} \X NodeFields) \cup {<<"Checkpoint", "commit_hash">>} :
         Corrupt(kind))
       => ~IsOk(load_with_mode(file', "Strict"))]_vars

\* the k-th smallest element of the set of indices S
Kth(S, k) == CHOOSE i \in S : Cardinality({j \in S : j < i}) = k - 1

\* the commits cs are the commits of old at the indices kept, in that order,
\* with their ids, messages and mutations
CommitsKept(cs, old, kept) ==
  /\ Len(cs) = Cardinality(kept)
  /\ \A k \in 1..Len(cs) :
        /\ cs[k].id = old[Kth(kept, k)].id
        /\ cs[k].message = old[Kth(kept, k)].message
        /\ cs[k].mutations = old[Kth(kept, k)].mutations

\* the checkpoints cps are the checkpoints of old at the indices kept, in
\* that order, with their commit ids, snapshots and state hashes
CheckpointsKept(cps, old, kept) ==
  /\ Len(cps) = Cardinality(kept)
  /\ \A k \in 1..Len(cps) :
        /\ cps[k].commit_id = old[Kth(kept, k)].commit_id
        /\ cps[k].state = old[Kth(kept, k)].state
        /\ cps[k].state_hash = old[Kth(kept, k)].state_hash

\* after is the store before, compacted at target t
CompactedAt(before, t, after) ==
  /\ CommitsKept(after.commits, before.commits,
                 {i \in 1..Len(before.commits) : before.commits[i].id > t})
  /\ CheckpointsKept(after.checkpoints, before.checkpoints,
                     {i \in 1..Len(before.checkpoints) :
                        before.checkpoints[i].commit_id > t})
  /\ after.genesis_state = Some(state_at_commit(before, t).Ok)

\* done is what compact returned for the loaded store before and target
CompactKeeps(before, target, done) ==
  IsOk(before) /\ IsOk(target) =>
    /\ done.res = "Ok"
    /\ CompactedAt(before.Ok, target.Ok, Stored(done.file))

\* C24: after compact with target t the stored commits are the original
\* commits with id > t, in their order and with their ids, messages and
\* mutations; the stored checkpoints are the original checkpoints with
\* commit id > t (commit id, snapshot and state hash; the commit_hash is the
\* one thing compact rewrites in them); the genesis snapshot is the original
\* state_at_commit(t).
C24_CompactRetains ==
  \A at \in CompactTargets :
    CompactKeeps(load(file), CompactionTarget(load(file).Ok, at), compact(file, at))

\* a compaction left a file with a commit and a checkpoint after the target
C24_Witness ==
  /\ result = "Ok"
  /\ \E s \in FileStores :
        /\ Compacted(s)
        /\ s.commits /= <<>>
        /\ s.checkpoints /= <<>>
        /\ IsSome(s.commits[1].message)

\* the commit ids of store s
CommitIdsOf(s) == {s.commits[i].id : i \in 1..Len(s.commits)}

\* the target compact has to choose for the loaded store s: Some(id), or
\* None when it has to fail
ChosenTarget(s, at) ==
  IF IsSome(at) THEN (IF Unwrap(at) \in CommitIdsOf(s) THEN at ELSE None)
  ELSE IF Checkpointed(s) /= {} THEN Some(MaxId(Checkpointed(s)))
  ELSE IF s.commits /= <<>> THEN Some(Last(s.commits).id)
  ELSE None

\* done is what compact returned for file f, given the target to choose
CompactChose(f, before, chosen, done) ==
  IF IsSome(chosen)
  THEN /\ done.res = "Ok"
       /\ CompactedAt(before, Unwrap(chosen), Stored(done.file))
  ELSE done = [res |-> "InvalidCompactionTarget", file |-> f]

\* C25: compact of a file that loads compacts at the supplied commit id when
\* that commit exists; with no id supplied, at the highest checkpoint commit
\* id, else at the last commit id; in the other cases (id of no commit, no id
\* and no commits) it fails with InvalidCompactionTarget and leaves the file
\* as it was.
C25_CompactionTarget ==
  \A at \in CompactTargets :
    IsOk(load(file)) =>
      CompactChose(file, load(file).Ok, ChosenTarget(load(file).Ok, at),
                   compact(file, at))

\* a compaction without target was refused for a file without commits, and
\* the file shows that an earlier one chose a target
C25_Witness ==
  /\ result = "InvalidCompactionTarget"
  /\ IsOk(load(file))
  /\ load(file).Ok.commits = <<>>
  /\ Compacted(load(file).Ok)
  /\ compact(file, None) = [res |-> "InvalidCompactionTarget", file |-> file]

\* the temp file was reloaded under Strict mode with the head state hash of
\* the store loaded from the file at <path>
TmpVerified ==
  /\ IsOk(load(tmp))
  /\ IsOk(load(file))
  /\ compute_state_hash(load(tmp).Ok.head_state)
       = compute_state_hash(load(file).Ok.head_state)

\* the step puts the complete compacted store at <path>
Published ==
  /\ pc.step = "verified"
  /\ TmpVerified
  /\ file' = tmp
  /\ compact(file, pc.at) = [res |-> "Ok", file |-> file']
  /\ result' = "Ok"

\* C26: every step of compact, the steps at which it fails included (load
\* error, invalid target, write error, reload error, integrity mismatch,
\* rename error), leaves the file at <path> as it was, but for the rename,
\* which puts the complete compacted store there and is taken only after the
\* temp file was reloaded under Strict mode with a head state hash equal to
\* the one taken before.
C26_CompactAllOrNothing == [][CompactStep => file' = file \/ Published]_vars

\* compact failed at its last step, after it wrote and verified the temp
\* file: the file at <path> is the store as it was saved
C26_Witness ==
  /\ pc = Idle
  /\ result = "Io"
  /\ tmp /= None
  /\ tmp /= file
  /\ file = save(Self)
  /\ \E at \in CompactTargets : compact(file, at) = [res |-> "Ok", file |-> tmp]

(***************************************************************************)
(* The header of the file.                                                 *)
(***************************************************************************)
HeaderKeys == {"magic", "format_version"}

\* the keys of the root object are those of the schema with the header keys
\* header: none unknown, none of the required ones missing
Shaped(obj, header) ==
  /\ DOMAIN obj \subseteq StoreKeys \cup header
  /\ RequiredStoreKeys \cup header \subseteq DOMAIN obj

\* the store that the body of the root object holds
StoreIn(obj) ==
  [Memory_new EXCEPT
     !.genesis_state = obj.genesis_state,
     !.genesis_state_hash = obj.genesis_state_hash,
     !.commits = obj.commits,
     !.checkpoints = obj.checkpoints,
     !.next_node_id = obj.next_node_id]

\* load fails with e, in either mode
LoadFails(f, e) == \A mode \in LoadModes : load_with_mode(f, mode) = Err(e)

MagicOff(obj) == "magic" \notin DOMAIN obj \/ obj.magic /= FILE_MAGIC

\* the dispatch of load on the header of obj; any_version says whether the
\* failure with InvalidFileMagic is stated for every format_version that is
\* present, or for the supported one
HeaderDispatch(obj, any_version) ==
  /\ "magic" \in DOMAIN obj /\ "format_version" \notin DOMAIN obj =>
        LoadFails(Some(obj), "MissingFormatVersion")
  /\ /\ "format_version" \in DOMAIN obj
     /\ any_version \/ obj.format_version = U64Of(FORMAT_VERSION)
     /\ MagicOff(obj)
     => LoadFails(Some(obj), "InvalidFileMagic")
  /\ DOMAIN obj \cap HeaderKeys = {} =>
        IF Shaped(obj, {})
        THEN \A mode \in LoadModes :
               load_with_mode(Some(obj), mode)
                 = validate_and_build_head(StoreIn(obj), mode)
        ELSE LoadFails(Some(obj), "MalformedFileStructure")
  /\ /\ "format_version" \in DOMAIN obj
     /\ obj.format_version = U64Of(FORMAT_VERSION)
     /\ ~MagicOff(obj)
     /\ ~Shaped(obj, HeaderKeys)
     => LoadFails(Some(obj), "MalformedFileStructure")

\* C27 as it is stated: ... a file with format_version present and magic
\* absent or different from MYOSOTIS fails to load with InvalidFileMagic,
\* whatever its format_version ...
C27_InvalidMagicAnyVersion == file /= None => HeaderDispatch(Unwrap(file), TRUE)

\* C27: load dispatches on the header: with magic present and format_version
\* absent it fails with MissingFormatVersion; with format_version present and
\* equal to the supported version 1, and magic absent or different from
\* MYOSOTIS, it fails with InvalidFileMagic; with both absent the file is
\* parsed as the legacy form (an unknown or a missing top-level key fails
\* with MalformedFileStructure, and else the load is the validation of the
\* store in the file); with a header that passes, an unknown or a missing
\* top-level key fails with MalformedFileStructure.
C27_HeaderDispatch == file /= None => HeaderDispatch(Unwrap(file), FALSE)

\* a file with the supported version, a wrong magic and an unknown key was
\* loaded, and the load failed with InvalidFileMagic
C27_Witness ==
  /\ file /= None
  /\ "format_version" \in DOMAIN Unwrap(file)
  /\ Unwrap(file).format_version = U64Of(FORMAT_VERSION)
  /\ "magic" \in DOMAIN Unwrap(file)
  /\ Unwrap(file).magic /= FILE_MAGIC
  /\ ~Shaped(Unwrap(file), HeaderKeys)
  /\ result = "InvalidFileMagic"

\* C28: a file whose format_version is present and is not the positive
\* integer 1 (0, a value above 1 below or from 2^32 on, or no unsigned
\* integer) fails to load with UnsupportedFormatVersion.
C28_UnsupportedVersion ==
  /\ file /= None
  /\ "format_version" \in DOMAIN Unwrap(file)
  /\ Unwrap(file).format_version /= U64Of(FORMAT_VERSION)
  => LoadFails(file, "UnsupportedFormatVersion")

\* the file is of the legacy form: no magic, no format_version, and the
\* keys of the store
Legacy(f) ==
  /\ f /= None
  /\ DOMAIN Unwrap(f) \cap HeaderKeys = {}
  /\ Shaped(Unwrap(f), {})

\* the versioned file with the content of obj
Versioned(obj) ==
  Some(Inserted(Inserted(obj, "magic", FILE_MAGIC),
                "format_version", U64Of(FORMAT_VERSION)))

\* both loads succeeded, with the same store and the same head state hash
SameLoaded(a, b) ==
  /\ IsOk(a)
  /\ IsOk(b)
  /\ a.Ok.commits = b.Ok.commits
  /\ a.Ok.checkpoints = b.Ok.checkpoints
  /\ a.Ok.genesis_state = b.Ok.genesis_state
  /\ a.Ok.genesis_state_hash = b.Ok.genesis_state_hash
  /\ a.Ok.next_node_id = b.Ok.next_node_id
  /\ compute_state_hash(a.Ok.head_state) = compute_state_hash(b.Ok.head_state)

\* save(path, mem) writes the versioned header
Reemitted(mem) ==
  /\ Unwrap(save(mem)).magic = "MYOSOTIS"
  /\ Unwrap(save(mem)).format_version = [hi |-> 0, lo |-> 1]

\* C29: a file of the legacy form whose versioned twin loads, loads too, with
\* the same commits, checkpoints, genesis, next_node_id and head state hash
\* as the twin, in either mode, and the loaded store is saved with magic
\* MYOSOTIS and format_version 1.
C29_LegacyMigration ==
  Legacy(file) =>
    \A mode \in LoadModes :
      IsOk(load_with_mode(Versioned(Unwrap(file)), mode)) =>
        /\ SameLoaded(load_with_mode(file, mode),
                      load_with_mode(Versioned(Unwrap(file)), mode))
        /\ Reemitted(load_with_mode(file, mode).Ok)

\* a compacted store with commits left was loaded from its legacy form
C29_Witness ==
  /\ Legacy(file)
  /\ result = "Ok"
  /\ IsOk(load(file))
  /\ Self = load(file).Ok
  /\ genesis_state /= None
  /\ commits /= <<>>

(***************************************************************************)
(* Nodes are never removed.                                                *)
(***************************************************************************)
\* every node id of the state before is an id of the state after
NodesKept(before, after) == DOMAIN before \subseteq DOMAIN after

\* the ids of the nodes that the durable part of self holds: those of the
\* genesis snapshot and those created by a commit
CommittedIds(self) ==
  (IF IsSome(self.genesis_state) THEN DOMAIN Unwrap(self.genesis_state) ELSE {})
    \cup {self.commits[p[1]].mutations[p[2]].CreateNode.id :
            p \in {q \in (1..Len(self.commits)) \X (1..MaxMutations) :
                     /\ q[2] <= Len(self.commits[q[1]].mutations)
                     /\ Is(self.commits[q[1]].mutations[q[2]], "CreateNode")}}

\* a step of the engine or on the file, any but a load, keeps every node id
\* of the head state
EngineKeepsNodes ==
  NodesKept(head_state, head_state') \/ \E mode \in LoadModes : Load(mode)

\* a load of the store as it was just saved gives a head state with the ids
SurvivesSaveLoad(ids) ==
  \/ ids \subseteq DOMAIN head_state'
  \/ \A mode \in LoadModes : ~(file = save(Self) /\ result' = "Ok" /\ Load(mode))

\* a compact that succeeds leaves a file whose head state has every node id
\* of the head state of the file before
CompactKeepsNodes ==
  \A at \in CompactTargets :
    file' /= file /\ result' = "Ok" /\ Compact(at) =>
      /\ IsOk(load(file))
      /\ IsOk(load(file'))
      /\ NodesKept(load(file).Ok.head_state, load(file').Ok.head_state)

\* C30 as it is stated: once a node id is in the head state, it is in the
\* head state after every later operation, save followed by load included.
C30_EveryNodeSurvivesLoad ==
  [][/\ EngineKeepsNodes
     /\ SurvivesSaveLoad(DOMAIN head_state)
     /\ CompactKeepsNodes]_vars

\* C30: once a node id is in the head state, it is in the head state after
\* every create, set, delete_field, delete_node, commit, save and compact; a
\* node id that a commit created or the genesis snapshot holds is in the head
\* state after save followed by load; and the head state of the file that a
\* compact leaves has every node id of the head state of the file before.
C30_NodesNeverRemoved ==
  [][/\ EngineKeepsNodes
     /\ SurvivesSaveLoad(CommittedIds(Self))
     /\ CompactKeepsNodes]_vars

\* the engine was loaded from a compacted file and holds a tombstoned node
C30_Witness ==
  /\ result = "Ok"
  /\ IsOk(load(file))
  /\ Self = load(file).Ok
  /\ genesis_state /= None
  /\ \E id \in DOMAIN head_state : head_state[id].deleted

(***************************************************************************)
(* Commit ids.                                                             *)
(***************************************************************************)
\* a step of the engine, any but a load, does not lower the id that the next
\* commit is given
EngineKeepsCommitId ==
  CommitId(Self)' >= CommitId(Self) \/ \E mode \in LoadModes : Load(mode)

\* a compact that succeeds does not lower the id that the next commit on the
\* store in the file is given
CompactKeepsCommitId ==
  \A at \in CompactTargets :
    file' /= file /\ result' = "Ok" /\ Compact(at) =>
      CommitId(load(file').Ok) >= CommitId(load(file).Ok)

\* C31: every id assigned by commit is greater than every commit id assigned
\* before it on the store, across commit, save/load and compact: no step of
\* the engine and no compact of its file lowers the id that the next commit
\* is given, so no commit id is assigned twice.
C31_CommitIdsMonotone == [][EngineKeepsCommitId /\ CompactKeepsCommitId]_vars

(***************************************************************************)
(* The state that commit validates the pending mutations against.          *)
(***************************************************************************)
\* the pending mutations pass the checks of commit against the state
\* replayed from the genesis anchor
ValidOnGenesisAnchor(self) ==
  /\ self.pending_mutations /= <<>>
  /\ IsOk(replay_from(GenesisOrEmpty(self), self.commits))
  /\ IsOk(commit_check(replay_from(GenesisOrEmpty(self), self.commits),
                       self.pending_mutations))

\* C32: commit validates the pending mutations against the state replayed
\* from the genesis anchor: on an engine with a genesis snapshot (a store
\* loaded after compaction) whose pending mutations are valid on that state,
\* commit succeeds.
C32_CommitOnGenesisAnchor ==
  genesis_state /= None /\ ValidOnGenesisAnchor(Self) =>
    \A message \in Messages : IsOk(commit(Self, message))

(***************************************************************************)
(* References to nodes created in the same commit.                         *)
(***************************************************************************)
\* a pending SetField of self holds a Ref to a node that a later pending
\* CreateNode creates
ForwardRef(self) ==
  \E j, c \in 1..Len(self.pending_mutations) :
    /\ j < c
    /\ Is(self.pending_mutations[j], "SetField")
    /\ Is(self.pending_mutations[c], "CreateNode")
    /\ self.pending_mutations[c].CreateNode.id
         \in Refs(self.pending_mutations[j].SetField.value)

\* a pending SetField of self holds a Ref to a node that an earlier pending
\* CreateNode creates
BackwardRef(self) ==
  \E j, c \in 1..Len(self.pending_mutations) :
    /\ c < j
    /\ Is(self.pending_mutations[j], "SetField")
    /\ Is(self.pending_mutations[c], "CreateNode")
    /\ self.pending_mutations[c].CreateNode.id
         \in Refs(self.pending_mutations[j].SetField.value)

\* the ids of the nodes that the pending mutations of self create
PendingCreated(self) ==
  {self.pending_mutations[c].CreateNode.id :
     c \in {n \in 1..Len(self.pending_mutations) :
              Is(self.pending_mutations[n], "CreateNode")}}

\* the value v with every Ref to a node of ids replaced by an integer
RECURSIVE StripRefs(_, _)
StripRefs(v, ids) ==
  IF Is(v, "Ref") THEN (IF v.Ref \in ids THEN [Int |-> 0] ELSE v)
  ELSE IF Is(v, "List") THEN
    [List |-> [i \in 1..Len(v.List) |-> StripRefs(v.List[i], ids)]]
  ELSE IF Is(v, "Map") THEN
    [Map |-> [key \in DOMAIN v.Map |-> StripRefs(v.Map[key], ids)]]
  ELSE v

\* self with the references to the nodes created in its pending buffer
\* taken out of the pending values
WithoutSameCommitRefs(self) ==
  [self EXCEPT !.pending_mutations =
     [j \in 1..Len(@) |->
        IF Is(@[j], "SetField")
        THEN [SetField |->
                [@[j].SetField EXCEPT !.value = StripRefs(@, PendingCreated(self))]]
        ELSE @[j]]]

\* C33: a reference to a node created in the same commit is accepted
\* exactly when the CreateNode of the target precedes the SetField in the
\* pending sequence: a pending SetField with a Ref to a node that is created
\* later in the pending sequence makes commit fail, and when every such
\* target is created earlier, commit succeeds whenever it succeeds on the
\* same pending sequence without these references.
C33_SameCommitRefs ==
  \A message \in Messages :
    /\ ForwardRef(Self) => ~IsOk(commit(Self, message))
    /\ ~ForwardRef(Self) =>
         (IsOk(commit(Self, message))
            <=> IsOk(commit(WithoutSameCommitRefs(Self), message)))

\* a commit failed on a SetField staged before the CreateNode of the node it
\* refers to, where the commit without the reference succeeds
C33_Witness ==
  /\ ForwardRef(Self)
  /\ result = "Invariant"
  /\ IsOk(commit(WithoutSameCommitRefs(Self), None))

(***************************************************************************)
(* What a successful commit changes.                                       *)
(***************************************************************************)
\* s is a prefix of t
IsPrefix(s, t) == Len(s) <= Len(t) /\ SubSeq(t, 1, Len(s)) = s

\* the step appends one commit that holds the pending buffer in its order,
\* empties the buffer and leaves the rest of the engine as it was
CommitFrame ==
  /\ Len(commits') = Len(commits) + 1
  /\ IsPrefix(commits, commits')
  /\ Last(commits').mutations = pending_mutations
  /\ pending_mutations' = <<>>
  /\ head_state' = head_state
  /\ next_node_id' = next_node_id
  /\ genesis_state' = genesis_state
  /\ genesis_state_hash' = genesis_state_hash
  /\ IsPrefix(checkpoints, checkpoints')
  /\ Len(checkpoints') <= Len(checkpoints) + 1

\* a commit that succeeds obeys CommitFrame
CommitKeepsFrame ==
  \A message \in Messages :
    commits' /= commits /\ result' = "Ok" /\ CommitOp(message) => CommitFrame

\* a load that succeeds leaves the pending buffer empty
LoadClearsPending ==
  \/ pending_mutations' = <<>>
  \/ \A mode \in LoadModes : ~(result' = "Ok" /\ Load(mode))

\* C34: a successful commit appends exactly one commit whose mutation list
\* is the pending buffer in staging order, empties the pending buffer, and
\* leaves the head state, next_node_id, the genesis, all earlier commits and
\* all earlier checkpoints unchanged; a load leaves the pending buffer empty.
C34_CommitFrame == [][CommitKeepsFrame /\ LoadClearsPending]_vars

\* a commit of two mutations succeeded, with a checkpoint pushed, on an
\* engine that had a commit and has its head
C34_Witness ==
  /\ result = "Ok"
  /\ pending_mutations = <<>>
  /\ Len(commits) = CHECKPOINT_INTERVAL
  /\ Len(checkpoints) = 1
  /\ Len(Last(commits).mutations) = MaxPending
  /\ Is(Last(commits).mutations[1], "CreateNode")
  /\ Is(Last(commits).mutations[MaxPending], "SetField")
  /\ head_state /= EmptyMap

(***************************************************************************)
(* The order of the checks of validate.                                    *)
(***************************************************************************)
\* the store passes the checks stated before the one of the checkpoints
\* against their commits: next_node_id is not 0 and the genesis snapshot has
\* its hash
PassesSchemaAndGenesis(s) ==
  /\ s.next_node_id /= 0
  /\ IF IsSome(s.genesis_state)
     THEN s.genesis_state_hash = Some(compute_state_hash(Unwrap(s.genesis_state)))
     ELSE s.genesis_state_hash = None

\* C35: validate runs its checks in the stated order and reports the first
\* failure: schema, snapshot integrity (genesis hash, then every checkpoint
\* against its commit), commit chain, hash chain, semantic replay, bounds; so
\* a stored file that passes the schema and genesis checks and has a
\* checkpoint whose commit is missing or has another hash is refused with
\* CheckpointCommitMismatch, in both modes, whatever else is wrong with it.
C35_ValidationOrder ==
  /\ file /= None
  /\ IsOk(ParseV1(Unwrap(file)))
  /\ PassesSchemaAndGenesis(Stored(file))
  /\ CheckpointOffCommit(Stored(file))
  => \A mode \in LoadModes :
       load_with_mode(file, mode) = Err("CheckpointCommitMismatch")

(***************************************************************************)
(* The genesis snapshot and its hash.                                      *)
(***************************************************************************)
\* the genesis snapshot of s has another state hash than genesis_state_hash,
\* or genesis_state_hash is set and there is no snapshot
GenesisHashOff(s) ==
  \/ /\ IsSome(s.genesis_state)
     /\ s.genesis_state_hash /= Some(compute_state_hash(Unwrap(s.genesis_state)))
  \/ ~IsSome(s.genesis_state) /\ IsSome(s.genesis_state_hash)

\* C36: in both load modes validation fails with CorruptGenesisHash when a
\* genesis snapshot is present and its recomputed state hash differs from
\* genesis_state_hash, and when genesis_state_hash is set without a genesis
\* snapshot.
C36_CorruptGenesisHash ==
  file /= None /\ IsOk(ParseV1(Unwrap(file))) /\ GenesisHashOff(Stored(file)) =>
    \A mode \in LoadModes :
      /\ validate_with_mode(Stored(file), mode = "Strict") = "CorruptGenesisHash"
      /\ load_with_mode(file, mode) = Err("CorruptGenesisHash")

\* the snapshot was taken out of a compacted file, its hash left, and the
\* load of the file failed with CorruptGenesisHash
C36_Witness ==
  /\ file /= None
  /\ IsOk(ParseV1(Unwrap(file)))
  /\ ~IsSome(Stored(file).genesis_state)
  /\ IsSome(Stored(file).genesis_state_hash)
  /\ Stored(file).genesis_state_hash /= Some(ZERO32)
  /\ result = "CorruptGenesisHash"

(***************************************************************************)
(* validate on the engine.                                                 *)
(***************************************************************************)
\* C37: validate(true) returns Ok on every engine state that is reachable
\* from new() through create, set, delete_field, delete_node, commit, save
\* followed by load, and compact, and in which the pending buffer is empty.
C37_ReachableValidates == pending_mutations = <<>> => validate(Self) = "Ok"

(***************************************************************************)
(* A reference to an absent node, staged.                                  *)
(***************************************************************************)
\* set on a live node, with a value that holds a Ref to a node that is not in
\* the head, succeeds and updates the head and the pending buffer
SetAcceptsDangling ==
  \A id \in NodeIds, key \in Keys, value \in RefValues :
    /\ id \in DOMAIN head_state
    /\ ~head_state[id].deleted
    /\ ~(Refs(value) \subseteq DOMAIN head_state)
    /\ SetRefs(id, key, value)
    => /\ result' = "Ok"
       /\ pending_mutations' = Append(pending_mutations, SetField(id, key, value))
       /\ head_state' = [head_state EXCEPT ![id].fields = Insert(@, key, value)]

\* no step on the engine takes the staged reference away
DanglingStays ==
  StagedDangling(Self) =>
    StagedDangling(Self)' \/ \E mode \in LoadModes : Load(mode)

\* with such a reference staged, commit fails and leaves the engine as it is
DanglingBlocksCommit ==
  StagedDangling(Self) =>
    \A message \in Messages :
      /\ ~IsOk(commit(Self, message))
      /\ CommitOp(message) => result' /= "Ok" /\ UNCHANGED memvars

\* C38: set accepts at stage time a value that holds a Ref to a node id
\* absent from the head, updating the head and the pending buffer; from then
\* on, whatever is staged afterwards, the reference stays staged (no
\* operation on the engine removes a staged mutation) and every commit on
\* the engine fails and leaves the engine unchanged.
C38_DanglingRefBlocksCommits ==
  [][SetAcceptsDangling /\ DanglingStays /\ DanglingBlocksCommit]_vars

\* a reference to a node that was not there was staged, the node was
\* created after it, and the commit failed
C38_Witness ==
  /\ StagedDangling(Self)
  /\ ForwardRef(Self)
  /\ Is(pending_mutations[1], "SetField")
  /\ result = "Invariant"

(***************************************************************************)
(* The allocation of node ids, on the engine and in the file.              *)
(***************************************************************************)
\* the next_node_id recorded in the file f
FileNextId(f) == Unwrap(f).next_node_id

\* the id create returns is self.next_node_id: it is no node of the head, it
\* is the id of the node that is staged, and the next one is one higher
CreateReturnsNext ==
  \A ty \in Types :
    Create(ty) =>
      /\ next_node_id \notin DOMAIN head_state
      /\ next_node_id' = next_node_id + 1
      /\ pending_mutations' =
            Append(pending_mutations, CreateNode(next_node_id, ty))

\* next_node_id changes by a create, or by a load that takes the file's
EngineNextId ==
  \/ next_node_id' = next_node_id
  \/ next_node_id' = next_node_id + 1 /\ \E ty \in Types : Create(ty)
  \/ /\ file /= None
     /\ next_node_id' = FileNextId(file)
     /\ \E mode \in LoadModes : Load(mode)

\* the file's next_node_id is the engine's at the last save: save writes it,
\* compaction keeps it, and the engine's is never below it
StoredNextId ==
  /\ file /= None => FileNextId(file) <= next_node_id
  /\ \/ file' = file
     \/ file' /= None /\ FileNextId(file') = next_node_id /\ Save
     \/ file /= None /\ file' /= None /\ FileNextId(file') = FileNextId(file)

RunOp(self, m) ==
  LET r == IF Is(m, "CreateNode") THEN create(self, m.CreateNode.ty)
           ELSE IF Is(m, "SetField")
             THEN set(self, m.SetField.id, m.SetField.key, m.SetField.value)
           ELSE IF Is(m, "DeleteField")
             THEN delete_field(self, m.DeleteField.id, m.DeleteField.key)
           ELSE delete_node(self, m.DeleteNode.id)
  IN IF IsOk(r) THEN r.Ok ELSE self

RECURSIVE RunOps(_, _)
RunOps(self, ms) ==
  IF ms = <<>> THEN self ELSE RunOps(RunOp(self, Head(ms)), Tail(ms))

\* the engine after the calls that made the commits cs, each followed by
\* commit with the message of the commit
RECURSIVE RunCommits(_, _)
RunCommits(self, cs) ==
  IF cs = <<>> THEN self
  ELSE LET staged == RunOps(self, Head(cs).mutations)
           r == commit(staged, Head(cs).message)
       IN RunCommits(IF IsOk(r) THEN r.Ok ELSE staged, Tail(cs))

\* a second engine, from new(), given the operations this engine was given
Twin == RunOps(RunCommits(Memory_new, commits), pending_mutations)

\* load, save, load again
Reloaded(f) == load(save(load(f).Ok))

====
